---- MODULE Spec2Model ----
(***************************************************************************)
(* Verification model of @iacobus/hbedf (ts-hbedf): the four derivation    *)
(* phases Key, Extract, Shuffle, Expand, their helpers, and the            *)
(* asynchronous and synchronous entry points hbedf / hbedfSync.            *)
(***************************************************************************)
EXTENDS Integers, Sequences, FiniteSets, TLC

VARIABLES
    pc,     \* per invocation: where the invocation stands (its suspension point)
    mode,   \* per invocation: "async" (hbedf) or "sync" (hbedfSync)
    args,   \* per invocation: the arguments (h, ibm, secret, opts) it was called with
    loc,    \* per invocation: the locals that live across the suspension points
    out,    \* per invocation: the outcome delivered to the caller
    log,    \* per invocation: the keyed computations performed so far, in order
    world,  \* the argument tuple under study in this behaviour
    hist    \* direct calls of the exported phase functions: <<[fn, arg, ret]>>

vars == <<pc, mode, args, loc, out, log, world, hist>>

\* `const x = v; ... x ...` : the value v is computed once and named x in F
Let(v, F(_)) == CHOOSE y \in { F(x) : x \in {v} } : TRUE

\* the array whose elements are f[1], ..., f[n], each computed once
Array(f) == <<>> \o f

----------------------------------------------------------------------------
(* Bits and 32 bit words.  A word is the set of the positions 0..31 of its *)
(* one bits; position 0 is the least significant bit.  Values above 2^31-1 *)
(* are kept as words (or as big-endian byte quadruples) because they do    *)
(* not fit a TLC integer.                                                  *)

WordBits == 32

Pow2(k) == 2 ^ k

\* bit k (0-based) of the natural number m < 2^31
Bit(m, k) == IF k < 0 \/ k > 30 THEN 0 ELSE (m \div Pow2(k)) % 2

ZeroWord == {}

\* value of a word whose top bit is clear
WordVal(w) ==
    LET RECURSIVE V(_, _)
        V(lo, hi) == IF lo = hi THEN (IF lo \in w THEN Pow2(lo) ELSE 0)
                     ELSE V(lo, (lo + hi) \div 2) + V((lo + hi) \div 2 + 1, hi)
    IN V(0, WordBits - 2)

\* the word of a natural number n < 2^31
WordOf(n) == { i \in 0..(WordBits - 1) : Bit(n, i) = 1 }

\* a | b
WordOr(a, b) == a \cup b

\* a >> k : sign-propagating right shift of the Int32 with this bit pattern
WordSar(a, k) ==
    { i \in 0..(WordBits - 1) : IF i + k <= WordBits - 1 THEN (i + k) \in a ELSE (WordBits - 1) \in a }

\* a >>> k : zero-fill right shift
WordShr(a, k) == { i \in 0..(WordBits - 1) : i + k <= WordBits - 1 /\ (i + k) \in a }

\* (a + 1) modulo 2^32
WordInc(a) ==
    { i \in 0..(WordBits - 1) : (i \in a) # (\A j \in 0..(i - 1) : j \in a) }

\* bitwise complement
WordNot(a) == (0..(WordBits - 1)) \ a

----------------------------------------------------------------------------
(* JavaScript values of the numeric options.  A finite number is           *)
(* (-1)^neg * m * 2^e with m a natural number and e an integer, which is   *)
(* how a double holds it; multiplying or dividing by a power of two moves  *)
(* e and is exact.                                                         *)

Num(m, e)  == [t |-> "number", k |-> "finite", neg |-> FALSE, m |-> m, e |-> e]
NegNum(m, e) == [t |-> "number", k |-> "finite", neg |-> TRUE, m |-> m, e |-> e]
NaN        == [t |-> "number", k |-> "nan", neg |-> FALSE, m |-> 0, e |-> 0]
Infinity   == [t |-> "number", k |-> "inf", neg |-> FALSE, m |-> 0, e |-> 0]
NegInfinity == [t |-> "number", k |-> "inf", neg |-> TRUE, m |-> 0, e |-> 0]
Str        == [t |-> "string", k |-> "none", neg |-> FALSE, m |-> 0, e |-> 0]
Undefined  == [t |-> "undefined", k |-> "none", neg |-> FALSE, m |-> 0, e |-> 0]

\* the typeof test alone, without || isNaN(x)
NotANumber_typeof(x) == x.t # "number"

\* typeof x !== "number" || isNaN(x)
NotANumber(x) == x.t # "number" \/ x.k = "nan"

\* bit i (0-based) of the integer part of |x|, x finite
MagBit(x, i) == Bit(x.m, i - x.e)

\* |x| >= 2^j for a finite x
MagAtLeastPow2(x, j) == \E b \in 0..30 : Bit(x.m, b) = 1 /\ b + x.e >= j

\* ToUint32 / ToInt32 of a number: the low 32 bits of its truncated value
ToUint32(x) ==
    IF x.k # "finite" THEN ZeroWord
    ELSE LET mag == { i \in 0..(WordBits - 1) : MagBit(x, i) = 1 }
         IN IF x.neg /\ mag # ZeroWord THEN WordInc(WordNot(mag)) ELSE mag

\* x < n for a number x and an integer n with 1 <= n < 2^31; false for NaN
LessThan(x, n) ==
    IF x.k = "nan" THEN FALSE
    ELSE IF x.k = "inf" THEN x.neg
    ELSE IF x.neg THEN TRUE
    ELSE ~MagAtLeastPow2(x, 31) /\ WordVal(ToUint32(x)) < n

\* log2 of a power of two
Log2(n) ==
    LET RECURSIVE L(_)
        L(v) == IF v <= 1 THEN 0 ELSE 1 + L(v \div 2)
    IN L(n)

\* x * n and x / n for n a power of two
MulPow2(x, n) == IF x.k # "finite" THEN x ELSE [x EXCEPT !.e = @ + Log2(n)]
DivPow2(x, n) == IF x.k # "finite" THEN x ELSE [x EXCEPT !.e = @ - Log2(n)]

----------------------------------------------------------------------------
(* src/crypto/mem.ts *)

\* n |= n >> k
OrShift(n, k) == WordOr(n, WordSar(n, k))

calcN(mem) ==
    LET memCost == MulPow2(MulPow2(mem, 1024), 1024)
        memoryPerUnitN == 1024
        rawN == DivPow2(memCost, 2 * memoryPerUnitN)
        n0 == ToUint32(rawN)                 \* rawN | 0 ; n >>> 0 keeps the same 32 bits
        n6 == OrShift(OrShift(OrShift(OrShift(OrShift(n0, 1), 2), 4), 8), 16)
        n7 == WordShr(WordInc(n6), 1)        \* (n + 1) >>> 1
    IN WordVal(n7)

\* the value calcN rounds: mem * 1048576 / 2048
rawNOf(mem) == DivPow2(MulPow2(MulPow2(mem, 1024), 1024), 2 * 1024)

----------------------------------------------------------------------------
(* Bytes, and unsigned 32 bit integers as four big-endian bytes.           *)

\* DataView.setUint32(0, n, false) for 0 <= n < 2^31
U32BE(n) == << (n \div 16777216) % 256, (n \div 65536) % 256, (n \div 256) % 256, n % 256 >>

\* num % (m - 1): the index scaled to the positions below i
U32Mod_below(b, m) ==
    ((((((b[1] % (m - 1)) * 256 + b[2]) % (m - 1)) * 256 + b[3]) % (m - 1)) * 256 + b[4]) % (m - 1)

\* num % m for the uint32 held in the four big-endian bytes b, 1 <= m < 2^20
U32Mod(b, m) == ((((((b[1] % m) * 256 + b[2]) % m) * 256 + b[3]) % m) * 256 + b[4]) % m

\* Uint8Array.prototype.slice(0, n) for an integer n >= 0
First(s, n) == SubSeq(s, 1, IF n < Len(s) THEN n ELSE Len(s))

\* new Uint8Array(n)
Zeros(n) == Array([i \in 1..n |-> 0])

----------------------------------------------------------------------------
(* The primitives of @noble/hashes and @iacobus/hd.  They are outside the  *)
(* repository; each is modelled as a fixed deterministic function of all   *)
(* of its inputs, with the output lengths of the interface.                *)

\* a hash h: its name and its output length in bytes
HashA == [name |-> "hA", outputLen |-> 4, iv |-> 7]
HashB == [name |-> "hB", outputLen |-> 5, iv |-> 1000]
\* a hash whose output is longer than the 16 bytes of a salt
HashC == [name |-> "hC", outputLen |-> 17, iv |-> 29]

\* the modulus of the toy compression, and base^k modulo it
HashMod == 32749

PowMod(base, k) ==
    LET RECURSIVE P(_)
        P(n) == IF n = 0 THEN 1
                ELSE LET hlf == P(n \div 2)
                         sq  == (hlf * hlf) % HashMod
                     IN IF n % 2 = 1 THEN (sq * base) % HashMod ELSE sq
    IN P(k)

\* absorbing msg into the state iv: a polynomial in the bytes of msg and its length
Absorb(iv, msg) ==
    LET n == Len(msg)
        RECURSIVE F(_, _)
        F(lo, hi) == IF lo > hi THEN 0
                     ELSE IF lo = hi THEN ((msg[lo] + 1) * PowMod(31, n - lo)) % HashMod
                     ELSE (F(lo, (lo + hi) \div 2) + F((lo + hi) \div 2 + 1, hi)) % HashMod
    IN (((((iv + 13 * n) % HashMod) * PowMod(31, n)) % HashMod) + F(1, n)) % HashMod

\* n output bytes of the state acc
Squeeze(acc, n) == Array([k \in 1..n |-> (((acc + 131 * k) * (75 + 2 * k)) % HashMod) % 256])

\* h.create().update(msg).digest()
Hash(h, msg) == Squeeze(Absorb(h.iv, msg), h.outputLen)

\* hmac.create(h, key).update(msg).digest()
hmac(h, key, msg) == Squeeze(Absorb(Absorb(h.iv + 1, key), msg), h.outputLen)

DkLen == 4

\* scrypt / scryptAsync reject a work factor that is not a power of two above 1
ScryptAccepts(N) == N > 1 /\ \E k \in 1..30 : N = Pow2(k)

\* the key stream of scrypt(password, salt, {N, r, p}) for an accepted N
scrypt(password, salt, N, r, p) ==
    Squeeze(Absorb(Absorb(Absorb(3, password), salt), <<N % 251, r, p>>), DkLen)

\* an HD key: key bytes and chain code bytes
HDKeyOf(h, d) == [key |-> d, code |-> Hash(h, d \o <<99>>)]

\* deriveMaster(h, seed)
deriveMaster(h, seed) == HDKeyOf(h, hmac(h, <<77>>, seed))

\* deriveChild(h, parent, index): index is a uint32, given as four big-endian bytes
deriveChild(h, parent, index) == HDKeyOf(h, hmac(h, parent.code, parent.key \o index))

\* deriveNode(h, master, dp): walk the parsed path from the master key
deriveNode(h, master, dp) ==
    LET RECURSIVE W(_, _)
        W(k, i) == IF i > Len(dp) THEN k ELSE W(deriveChild(h, k, dp[i]), i + 1)
    IN W(master, 1)

defaultSchema == "S4"

\* newSchema(schema): the number of levels the schema declares; 0 when it is malformed
newSchema(schema) ==
    CASE schema = "S4" -> 4
      [] schema = "S2" -> 2
      [] OTHER -> 0

\* newPath(h, path, ps): the indices of the path, or failure when it does not fit the schema
newPath(h, path, ps) ==
    IF ps = 0 \/ Len(path) # ps THEN [ok |-> FALSE, dp |-> <<>>]
    ELSE [ok |-> TRUE, dp |-> Array([i \in 1..Len(path) |-> U32BE(path[i])])]

----------------------------------------------------------------------------
(* Outcomes and the record of the keyed computations performed.            *)

Ev(op, info) == [op |-> op, info |-> info]

Ok(val, lg)   == [ok |-> TRUE, err |-> "", val |-> val, log |-> lg]
Fail(err, lg) == [ok |-> FALSE, err |-> err, val |-> <<>>, log |-> lg]

----------------------------------------------------------------------------
(* src/shuffle/rng.ts : rng *)

\* the uint32 result is returned as its four big-endian bytes
rng(h, msg, info, c) ==
    LET b == U32BE(c)                        \* c >>> 0, setUint32(0, c, false)
        d == First(hmac(h, info, msg \o b), 4)
    IN d

----------------------------------------------------------------------------
(* src/crypto/strengthen.ts *)

STRENGTH == 1398035013

\* One pass of the loop body: for (let i = 0; i < c; i++) { element = HMAC(key, uint32be(i) || element) }
StrengthenStep(h, key, c32, st) ==
    IF st.iters < c32
    THEN [val |-> hmac(h, key, U32BE(st.iters) \o st.val), iters |-> st.iters + 1]
    ELSE st

\* The loop, run as n guarded passes (n >= c32), split in halves to keep the
\* evaluation shallow.  The result holds the value and the number of passes made.
strengthen_element(h, c, key, element) ==
    LET c32 == WordVal(ToUint32(c))          \* c = c >>> 0
        RECURSIVE R(_, _)
        R(st, n) == IF n = 0 THEN st
                    ELSE IF n = 1 THEN StrengthenStep(h, key, c32, st)
                    ELSE Let(R(st, n \div 2), LAMBDA mid : R(mid, n - (n \div 2)))
    IN Let(c32, LAMBDA n : R([val |-> element, iters |-> 0], n))

\* Which array object strengthen writes (`out[i] = se`) and returns, given the
\* object it was passed as `arrays`: `out`, which `new Array(arrays.length)` allocates.
strengthen_result_in_place(arrays) == arrays

strengthen_result(arrays) == "out"

\* a strengthen that writes the position into the element it strengthens
strengthen_indexed(h, arrays, key, c) ==
    Let(deriveChild(h, key, U32BE(STRENGTH)), LAMBDA hd :
    Let(Array([i \in 1..Len(arrays) |-> strengthen_element(h, c, hd.key, <<i>> \o arrays[i])]),
        LAMBDA se :
        [out |-> Array([i \in 1..Len(arrays) |-> se[i].val]),
         log |-> <<Ev("deriveChild", U32BE(STRENGTH))>>
                 \o [i \in 1..Len(arrays) |-> Ev("strengthen_element", <<i, se[i].iters>>)]]))

strengthen(h, arrays, key, c) ==
    Let(deriveChild(h, key, U32BE(STRENGTH)), LAMBDA hd :
    Let(Array([i \in 1..Len(arrays) |-> strengthen_element(h, c, hd.key, arrays[i])]),
        LAMBDA se :
        [out |-> Array([i \in 1..Len(arrays) |-> se[i].val]),
         log |-> <<Ev("deriveChild", U32BE(STRENGTH))>>
                 \o [i \in 1..Len(arrays) |-> Ev("strengthen_element", <<i, se[i].iters>>)]]))

----------------------------------------------------------------------------
(* src/shuffle/fy.ts : flatten_arrays, calc_salt, fySync                   *)
(* A shuffled sequence is [isArray, units]: units are byte arrays when     *)
(* isArray (Uint8Array[]), single bytes otherwise (Uint8Array).            *)

flatten_arrays(arrays) ==
    LET RECURSIVE F(_)
        F(i) == IF i > Len(arrays) THEN <<>> ELSE arrays[i] \o F(i + 1)
    IN F(1)

SALT == <<83, 65, 76, 84>>

calc_salt(h, key, msg) == First(hmac(h, key, msg \o SALT), 16)

Flat(isArray, units) == IF isArray THEN flatten_arrays(units) ELSE units

\* a swap of the unit at j with the last unit, whatever i is
Swap_top(units, i, j) ==
    [units EXCEPT ![Len(units)] = units[j + 1], ![j + 1] = units[Len(units)]]

\* array[i] = array[j]: the unit at i is overwritten, not exchanged
Swap_overwrite(units, i, j) == [units EXCEPT ![i + 1] = units[j + 1]]

\* [array[i], array[j]] = [array[j], array[i]] on 0-based positions i, j
Swap(units, i, j) ==
    Let(j, LAMBDA jj : [units EXCEPT ![i + 1] = units[jj + 1], ![jj + 1] = units[i + 1]])

\* the loop of fySync: for (let i = l - 1; i > 0; i--)
fySync_loop(h, isArray, units, dk, l) ==
    LET RECURSIVE L(_, _)
        L(i, a) ==
            IF i > 0
            THEN LET rem == Flat(isArray, SubSeq(a, 1, i + 1))
                     num == rng(h, rem, dk, i)
                     j   == U32Mod(num, i + 1)
                 IN Let(Swap(a, i, j), LAMBDA b : L(i - 1, b))
            ELSE a
    IN L(l - 1, units)

\* fySync(h, array, key, N): out is the returned buffer, array the caller's
\* sequence as the in-place swaps leave it
fySync(h, isArray, array, key, N) ==
    Let(calc_salt(h, key.key, Flat(isArray, array)), LAMBDA salt :
    Let(<<Ev("calc_salt", salt), Ev("scrypt", <<key.code, salt, N, 8, 1>>)>>, LAMBDA pre :
        IF ~ScryptAccepts(N)
        THEN [ok |-> FALSE, err |-> "Error: scrypt N", out |-> <<>>, array |-> array, log |-> pre]
        ELSE Let(fySync_loop(h, isArray, array, scrypt(key.code, salt, N, 8, 1), Len(array)),
                 LAMBDA a :
                 [ok |-> TRUE, err |-> "", out |-> Flat(isArray, a), array |-> a,
                  log |-> pre \o <<Ev("fy_loop", Len(array))>>])))

----------------------------------------------------------------------------
(* src/hbedf.ts : key, extract, shuffleSync, expand *)

digest(h, k, data) == hmac(h, k, data)

concatBytes(a, b) == a \o b

HBEDF == <<72, 66, 69, 68, 70>>

key(h, secret, schema, path) ==
    LET ps == newSchema(schema)
        dp == newPath(h, path, ps)
        s  == secret \o HBEDF
        master == deriveMaster(h, s)
        node == deriveNode(h, master, dp.dp)
    IN IF ~dp.ok THEN Fail("Error: path", <<>>)
       ELSE Ok(node, <<Ev("deriveMaster", <<>>), Ev("deriveNode", dp.dp)>>)

MinC == 100
MinMem == 1

extract(h, ibm, hdKey, c, mem) ==
    IF NotANumber(c) THEN Fail("TypeError: c", <<>>)
    ELSE IF LessThan(c, MinC) THEN Fail("RangeError: c", <<>>)
    ELSE Let(strengthen(h, ibm, hdKey, c), LAMBDA st :
             IF NotANumber(mem) THEN Fail("TypeError: mem", st.log)
             ELSE IF LessThan(mem, MinMem) THEN Fail("RangeError: mem", st.log)
             ELSE Let(calcN(mem), LAMBDA N :
                      Ok([sbm |-> st.out, N |-> N], st.log \o <<Ev("calcN", N)>>)))

\* the shuffle phase keyed under the index of the strengthen phase
SHUFFLE_as_STRENGTH == STRENGTH

SHUFFLE == 1397249350

\* a shuffleSync that takes the index of the second key from the unshuffled sbm
shuffleSync_stale_index(h, sbm, hdKey, N) ==
    Let(deriveChild(h, hdKey, U32BE(SHUFFLE)), LAMBDA c1 :
    Let(fySync(h, TRUE, sbm, c1, N), LAMBDA p1 :
        IF ~p1.ok THEN Fail(p1.err, <<Ev("deriveChild", U32BE(SHUFFLE))>> \o p1.log)
        ELSE
    Let(First(Hash(h, flatten_arrays(sbm)), 4), LAMBDA index :
    Let(fySync(h, FALSE, p1.out, deriveChild(h, c1, index), N), LAMBDA p2 :
    Let(<<Ev("deriveChild", U32BE(SHUFFLE))>> \o p1.log \o <<Ev("deriveChild", index)>> \o p2.log,
        LAMBDA lg :
        IF ~p2.ok THEN Fail(p2.err, lg) ELSE Ok(p2.out, lg))))))

\* N is always the number calcN returned, so the typeof / isNaN test on N passes
shuffleSync(h, sbm, hdKey, N) ==
    Let(deriveChild(h, hdKey, U32BE(SHUFFLE)), LAMBDA c1 :
    Let(fySync(h, TRUE, sbm, c1, N), LAMBDA p1 :
        IF ~p1.ok THEN Fail(p1.err, <<Ev("deriveChild", U32BE(SHUFFLE))>> \o p1.log)
        ELSE
    Let(First(Hash(h, p1.out), 4), LAMBDA index :      \* getUint32(0, false), as its four bytes
    Let(fySync(h, FALSE, p1.out, deriveChild(h, c1, index), N), LAMBDA p2 :
    Let(<<Ev("deriveChild", U32BE(SHUFFLE))>> \o p1.log \o <<Ev("deriveChild", index)>> \o p2.log,
        LAMBDA lg :
        IF ~p2.ok THEN Fail(p2.err, lg) ELSE Ok(p2.out, lg))))))

MaxBlocks == 255

\* osm.slice(0, length) for an integer length
SliceTo(osm, length) ==
    IF length >= 0 THEN First(osm, length)
    ELSE SubSeq(osm, 1, IF Len(osm) + length > 0 THEN Len(osm) + length ELSE 0)

\* the ceiling test with >= in place of >
ExceedsCeiling_off_by_one(length, d) == length >= MaxBlocks * Len(d)

\* length > 255 * d.length
ExceedsCeiling(length, d) == length > MaxBlocks * Len(d)

\* a pass whose MAC input leaves out the last block t
ExpandStep_unchained(h, pbm, hdKey, length, st) ==
    IF Len(st.osm) < length
    THEN LET i     == st.i + 1
             child == deriveChild(h, hdKey, U32BE(i))
             prk   == digest(h, child.key, pbm)
             data  == pbm \o <<i % 256>>
         IN Let(digest(h, prk, data), LAMBDA t :
                [i |-> i, t |-> t, osm |-> concatBytes(st.osm, t)])
    ELSE st

\* a pass of `while (osm.length <= length) { ... }`
ExpandStep_inclusive(h, pbm, hdKey, length, st) ==
    IF Len(st.osm) <= length
    THEN LET i     == st.i + 1
             child == deriveChild(h, hdKey, U32BE(i))
             prk   == digest(h, child.key, pbm)
             data  == st.t \o pbm \o <<i % 256>>
         IN Let(digest(h, prk, data), LAMBDA t :
                [i |-> i, t |-> t, osm |-> concatBytes(st.osm, t)])
    ELSE st

\* One pass of `while (osm.length < length) { ... }`
ExpandStep(h, pbm, hdKey, length, st) ==
    IF Len(st.osm) < length
    THEN LET i     == st.i + 1
             child == deriveChild(h, hdKey, U32BE(i))
             prk   == digest(h, child.key, pbm)
             data  == st.t \o pbm \o <<i % 256>>
         IN Let(digest(h, prk, data), LAMBDA t :
                [i |-> i, t |-> t, osm |-> concatBytes(st.osm, t)])
    ELSE st

\* The loop is run as `length` guarded passes, which is at least the number it
\* makes since every pass adds d.length >= 1 bytes; split in halves to keep the
\* evaluation shallow.  The counter i it ends with is the number of child keys
\* 1..i derived.
expand(h, pbm, hdKey, length) ==
    LET d == digest(h, Zeros(32), Zeros(32))
        RECURSIVE R(_, _)
        R(st, n) == IF n <= 0 THEN st
                    ELSE IF n = 1 THEN ExpandStep(h, pbm, hdKey, length, st)
                    ELSE Let(R(st, n \div 2), LAMBDA mid : R(mid, n - (n \div 2)))
    IN IF ExceedsCeiling(length, d) THEN Fail("RangeError: length", <<Ev("digest", <<>>)>>)
       ELSE Let(R([i |-> 0, t |-> <<>>, osm |-> <<>>], length), LAMBDA r :
                Ok(SliceTo(r.osm, length), <<Ev("digest", <<>>), Ev("expand_blocks", r.i)>>))

----------------------------------------------------------------------------
(* src/mod.ts : hbedfSync.  opts = [path, schema, c, mem, dsLen]; schema   *)
(* is a string or "undefined"; dsLen is [def, n]: absent, or the integer n *)

Absent == [def |-> FALSE, n |-> 0]
Len_(n) == [def |-> TRUE, n |-> n]

\* if (opts.schema)
SchemaOf(opts) == IF opts.schema # "undefined" /\ opts.schema # "" THEN opts.schema ELSE defaultSchema

DefaultDsLen == 32

\* if (opts.dsLen)
DsLenOf(opts) == IF opts.dsLen.def /\ opts.dsLen.n # 0 THEN opts.dsLen.n ELSE DefaultDsLen

hbedfSync(h, ibm, secret, opts) ==
    Let(key(h, secret, SchemaOf(opts), opts.path), LAMBDA k :
        IF ~k.ok THEN Fail(k.err, k.log) ELSE
    Let(extract(h, ibm, k.val, opts.c, opts.mem), LAMBDA ex :
        IF ~ex.ok THEN Fail(ex.err, k.log \o ex.log) ELSE
    Let(shuffleSync(h, ex.val.sbm, k.val, ex.val.N), LAMBDA sh :
        IF ~sh.ok THEN Fail(sh.err, k.log \o ex.log \o sh.log) ELSE
    Let(expand(h, sh.val, k.val, DsLenOf(opts)), LAMBDA xp :
        IF ~xp.ok THEN Fail(xp.err, k.log \o ex.log \o sh.log \o xp.log)
        ELSE Ok(xp.val, k.log \o ex.log \o sh.log \o xp.log)))))

----------------------------------------------------------------------------
(* src/shuffle/fy.ts : fyAsync, and src/hbedf.ts : shuffleAsync, and       *)
(* src/mod.ts : hbedf, cut at their awaits.  Each piece is the code that   *)
(* runs between two suspension points.                                     *)

\* a fyAsync that calls scryptAsync with twice the work factor it was given
fyAsync_pre_double_N(h, isArray, array, hdKey, N) ==
    Let(calc_salt(h, hdKey.key, Flat(isArray, array)), LAMBDA salt :
        [salt |-> salt,
         log |-> <<Ev("calc_salt", salt), Ev("scrypt", <<hdKey.code, salt, 2 * N, 8, 1>>)>>])

\* fyAsync up to `await scryptAsync(...)`
fyAsync_pre(h, isArray, array, hdKey, N) ==
    Let(calc_salt(h, hdKey.key, Flat(isArray, array)), LAMBDA salt :
        [salt |-> salt,
         log |-> <<Ev("calc_salt", salt), Ev("scrypt", <<hdKey.code, salt, N, 8, 1>>)>>])

\* a fyAsync whose loop makes no swap
fyAsync_loop_unshuffled(h, isArray, units, dk, l) == units

\* the loop of fyAsync
fyAsync_loop(h, isArray, units, dk, l) ==
    LET RECURSIVE L(_, _)
        L(i, a) ==
            IF i > 0
            THEN LET rem == Flat(isArray, SubSeq(a, 1, i + 1))
                     num == rng(h, rem, dk, i)
                     j   == U32Mod(num, i + 1)
                 IN Let(Swap(a, i, j), LAMBDA b : L(i - 1, b))
            ELSE a
    IN L(l - 1, units)

\* fyAsync after the await: the key stream is there, or scryptAsync rejected
fyAsync_post(h, isArray, array, hdKey, salt, N) ==
    IF ~ScryptAccepts(N)
    THEN [ok |-> FALSE, err |-> "Error: scrypt N", out |-> <<>>, array |-> array, log |-> <<>>]
    ELSE Let(fyAsync_loop(h, isArray, array, scrypt(hdKey.code, salt, N, 8, 1), Len(array)),
             LAMBDA a :
             [ok |-> TRUE, err |-> "", out |-> Flat(isArray, a), array |-> a,
              log |-> <<Ev("fy_loop", Len(array))>>])

NoKey == [key |-> <<>>, code |-> <<>>]

\* ibmObj: the array object the invocation was passed as ibm; arrayObj: the
\* array object fyAsync was passed and swaps in place
NoLoc == [hdKey |-> NoKey, N |-> 0, fyKey |-> NoKey, isArray |-> FALSE, array |-> <<>>,
          salt |-> <<>>, s |-> <<>>, pbm |-> <<>>, ibmObj |-> "none", arrayObj |-> "none"]

\* a hbedf that is not an async function: what fails before the first await is thrown at the call
hbedf_call_throwing(h, ibm, secret, opts) ==
    Let(key(h, secret, SchemaOf(opts), opts.path), LAMBDA k :
        IF ~k.ok THEN [pc |-> "thrown", loc |-> NoLoc, r |-> Fail(k.err, k.log)] ELSE
    Let(extract(h, ibm, k.val, opts.c, opts.mem), LAMBDA ex :
        IF ~ex.ok THEN [pc |-> "thrown", loc |-> NoLoc, r |-> Fail(ex.err, k.log \o ex.log)] ELSE
    Let(deriveChild(h, k.val, U32BE(SHUFFLE)), LAMBDA c1 :
    Let(fyAsync_pre(h, TRUE, ex.val.sbm, c1, ex.val.N), LAMBDA f :
        [pc |-> "scrypt1",
         loc |-> [NoLoc EXCEPT !.hdKey = k.val, !.N = ex.val.N, !.fyKey = c1,
                               !.isArray = TRUE, !.array = ex.val.sbm, !.salt = f.salt,
                               !.arrayObj = strengthen_result("ibm")],
         r |-> Ok(<<>>, k.log \o ex.log \o <<Ev("deriveChild", U32BE(SHUFFLE))>> \o f.log)]))))

\* hbedf from the call to the first await: key, extract, shuffleAsync up to
\* fyAsync's await of scryptAsync.  A throw rejects the promise hbedf returned.
hbedf_call(h, ibm, secret, opts) ==
    Let(key(h, secret, SchemaOf(opts), opts.path), LAMBDA k :
        IF ~k.ok THEN [pc |-> "rejected", loc |-> NoLoc, r |-> Fail(k.err, k.log)] ELSE
    Let(extract(h, ibm, k.val, opts.c, opts.mem), LAMBDA ex :
        IF ~ex.ok THEN [pc |-> "rejected", loc |-> NoLoc, r |-> Fail(ex.err, k.log \o ex.log)] ELSE
    Let(deriveChild(h, k.val, U32BE(SHUFFLE)), LAMBDA c1 :
    Let(fyAsync_pre(h, TRUE, ex.val.sbm, c1, ex.val.N), LAMBDA f :
        [pc |-> "scrypt1",
         loc |-> [NoLoc EXCEPT !.hdKey = k.val, !.N = ex.val.N, !.fyKey = c1,
                               !.isArray = TRUE, !.array = ex.val.sbm, !.salt = f.salt,
                               !.arrayObj = strengthen_result("ibm")],
         r |-> Ok(<<>>, k.log \o ex.log \o <<Ev("deriveChild", U32BE(SHUFFLE))>> \o f.log)]))))

\* a shuffleAsync that starts the second pass with the key of the first
shuffleAsync_mid_same_key(h, l) ==
    Let(fyAsync_pre(h, FALSE, l.s, l.fyKey, l.N), LAMBDA f :
        [loc |-> [l EXCEPT !.isArray = FALSE, !.array = l.s, !.salt = f.salt, !.arrayObj = "s"],
         log |-> f.log])

\* shuffleAsync between its two awaits: checksum, second key, fyAsync up to its await
shuffleAsync_mid(h, l) ==
    Let(First(Hash(h, l.s), 4), LAMBDA index :         \* getUint32(0, false), as its four bytes
    Let(deriveChild(h, l.fyKey, index), LAMBDA c2 :
    Let(fyAsync_pre(h, FALSE, l.s, c2, l.N), LAMBDA f :
        [loc |-> [l EXCEPT !.fyKey = c2, !.isArray = FALSE, !.array = l.s, !.salt = f.salt,
                           !.arrayObj = "s"],
         log |-> <<Ev("deriveChild", index)>> \o f.log])))

\* a hbedf that always expands to the default length
hbedf_finish_default(h, opts, l) == expand(h, l.pbm, l.hdKey, DefaultDsLen)

\* the caller's ibm array as hbedf leaves it at its first await: strengthen
\* assigns the elements of its result array
hbedf_call_ibm(ibm, r) ==
    IF strengthen_result("ibm") = "ibm" /\ r.pc = "scrypt1" THEN r.loc.array ELSE ibm

\* the caller's ibm array as hbedfSync leaves it: strengthen assigns the
\* elements of its result array, and the first fySync swaps them in place
hbedfSync_ibm(h, ibm, secret, opts) ==
    IF strengthen_result("ibm") # "ibm" THEN ibm ELSE
    Let(key(h, secret, SchemaOf(opts), opts.path), LAMBDA k :
        IF ~k.ok THEN ibm ELSE
    Let(extract(h, ibm, k.val, opts.c, opts.mem), LAMBDA ex :
        IF ~ex.ok THEN ibm ELSE
        fySync(h, TRUE, ex.val.sbm, deriveChild(h, k.val, U32BE(SHUFFLE)), ex.val.N).array))

\* hbedf after `await shuffleAsync(...)`
hbedf_finish(h, opts, l) == expand(h, l.pbm, l.hdKey, DsLenOf(opts))

----------------------------------------------------------------------------
(* The argument tuples.  Each behaviour studies one tuple, `world`, which  *)
(* differs from Base in one or two arguments; invocations are made with it *)
(* or with Other.                                                          *)

NumCalls == 2

Calls == 1..NumCalls

ElA == <<76, 48>>
ElB == <<77>>
ElC == <<69, 82>>

Path4 == <<42, 0, 1, 0>>
Path2 == <<42, 0>>

BaseOpts == [path |-> Path4, schema |-> "undefined", c |-> Num(100, 0), mem |-> Num(1, 0),
             dsLen |-> Absent]

Base == [h |-> HashA, ibm |-> <<ElA, ElB, ElC>>, secret |-> <<49, 50>>, opts |-> BaseOpts]

Other == [h |-> HashB, ibm |-> <<ElB, ElA>>, secret |-> <<57>>,
          opts |-> [path |-> Path2, schema |-> "S2", c |-> Num(101, 0), mem |-> Num(2, 0),
                    dsLen |-> Len_(7)]]

\* iteration counts: not a number, NaN, below / at / above 100, 2^32, 2^32 + 100, Infinity
CValues == { Str, Undefined, NaN, NegNum(5, 0), Num(0, 0), Num(99, 0), Num(199, -1),
             Num(100, 0), Num(201, -1), Num(101, 0), Num(1, 32), Num(1073741849, 2), Infinity }

\* memory budgets in MiB: not a number, NaN, below / at / above 1, 2^22, 2^23, Infinity
MemValues == { Str, Undefined, NaN, NegNum(1, 0), Num(0, 0), Num(1, -1), Num(1, 0), Num(3, -1),
               Num(32, 0), Num(1, 22), Num(1, 23), Infinity }

DsLenValues == { Absent, Len_(0), Len_(1), Len_(4), Len_(6), Len_(33),
                 Len_(MaxBlocks * 4), Len_(MaxBlocks * 4 + 1), Len_(MaxBlocks * 5), Len_(MaxBlocks * 5 + 1) }

Worlds ==
    { Base, [Base EXCEPT !.h = HashB], [Base EXCEPT !.h = HashC], [Base EXCEPT !.secret = <<>>] }
    \cup { [Base EXCEPT !.ibm = b] : b \in { <<>>, <<ElA>>, <<ElB, ElB>>, <<ElC, ElB, ElA>> } }
    \cup { [Base EXCEPT !.opts.path = p, !.opts.schema = sc] :
             p \in {Path4, Path2}, sc \in {"", "S2", "S4", "bad"} }
    \cup { [Base EXCEPT !.opts.c = c] : c \in CValues }
    \cup { [Base EXCEPT !.opts.mem = m] : m \in MemValues }
    \cup { [Base EXCEPT !.opts.dsLen = d] : d \in DsLenValues }
    \cup { [Base EXCEPT !.h = HashB, !.opts.dsLen = d] : d \in DsLenValues }
    \cup { [Base EXCEPT !.ibm = b, !.opts.dsLen = d] :
             b \in { <<>>, <<ElA>> }, d \in { Len_(0), Len_(6) } }
    \cup { [Base EXCEPT !.opts.c = Num(99, 0), !.opts.mem = Num(0, 0)],
           [Base EXCEPT !.opts.c = Str, !.opts.dsLen = Len_(MaxBlocks * 4 + 1)],
           [Base EXCEPT !.opts.mem = Num(0, 0), !.opts.dsLen = Len_(MaxBlocks * 4 + 1)] }

Inputs == Worlds \cup {Other}

Res(r) == [ok |-> r.ok, err |-> r.err, val |-> r.val]

\* hbedf run alone, from its call to the settling of its promise with no
\* other invocation in between: s and pbm are what the two passes returned
hbedfAlone(h, ibm, secret, opts) ==
    Let(hbedf_call(h, ibm, secret, opts), LAMBDA c :
        IF c.pc = "rejected" THEN [s |-> <<>>, pbm |-> <<>>, r |-> Res(c.r)] ELSE
    Let(fyAsync_post(h, c.loc.isArray, c.loc.array, c.loc.fyKey, c.loc.salt, c.loc.N), LAMBDA p1 :
        IF ~p1.ok THEN [s |-> <<>>, pbm |-> <<>>, r |-> [ok |-> FALSE, err |-> p1.err, val |-> <<>>]] ELSE
    Let(shuffleAsync_mid(h, [c.loc EXCEPT !.array = p1.array, !.s = p1.out]), LAMBDA m :
    Let(fyAsync_post(h, m.loc.isArray, m.loc.array, m.loc.fyKey, m.loc.salt, m.loc.N), LAMBDA p2 :
        IF ~p2.ok THEN [s |-> p1.out, pbm |-> <<>>, r |-> [ok |-> FALSE, err |-> p2.err, val |-> <<>>]] ELSE
        [s |-> p1.out, pbm |-> p2.out,
         r |-> Res(hbedf_finish(h, opts, [m.loc EXCEPT !.array = p2.array, !.pbm = p2.out]))]))))

\* what hbedfSync returns or throws, and what hbedf does up to its first await
SyncTable == [x \in Inputs |-> hbedfSync(x.h, x.ibm, x.secret, x.opts)] @@ <<>>
CallTable == [x \in Inputs |-> hbedf_call(x.h, x.ibm, x.secret, x.opts)] @@ <<>>

AloneTable == [x \in Inputs |-> hbedfAlone(x.h, x.ibm, x.secret, x.opts)] @@ <<>>

AloneOf(x) == IF x \in Inputs THEN AloneTable[x] ELSE hbedfAlone(x.h, x.ibm, x.secret, x.opts)
SyncOf(x) == IF x \in Inputs THEN SyncTable[x] ELSE hbedfSync(x.h, x.ibm, x.secret, x.opts)
CallOf(x) == IF x \in Inputs THEN CallTable[x] ELSE hbedf_call(x.h, x.ibm, x.secret, x.opts)

\* the argument tuple of an invocation on the caller's objects ("world") or on
\* the objects of Other
ArgsOf(src, w) == IF src = "world" THEN w ELSE Other

NoArgs == [h |-> HashA, ibm |-> <<>>, secret |-> <<>>,
           opts |-> [path |-> <<>>, schema |-> "undefined", c |-> Undefined, mem |-> Undefined,
                     dsLen |-> Absent]]

NoOut == [ok |-> FALSE, err |-> "", val |-> <<>>]


----------------------------------------------------------------------------
(* The invocations. *)

Init ==
    /\ pc = [i \in Calls |-> "idle"]
    /\ mode = [i \in Calls |-> "none"]
    /\ args = [i \in Calls |-> NoArgs]
    /\ loc = [i \in Calls |-> NoLoc]
    /\ out = [i \in Calls |-> NoOut]
    /\ log = [i \in Calls |-> <<>>]
    /\ world \in Worlds
    /\ hist = <<>>

\* invocations are numbered in the order they are made
MayStart(i) == pc[i] = "idle" /\ \A j \in 1..(i - 1) : pc[j] # "idle"

\* hbedfSync(h, ibm, secret, opts): runs to its return or throw
CallSync(i) ==
    /\ MayStart(i)
    /\ \E src \in {"world", "other"} : \E x \in {ArgsOf(src, world)} : \E r \in {SyncOf(x)} :
            /\ pc' = [pc EXCEPT ![i] = IF r.ok THEN "returned" ELSE "thrown"]
            /\ mode' = [mode EXCEPT ![i] = "sync"]
            /\ args' = [args EXCEPT ![i] = x]
            /\ out' = [out EXCEPT ![i] = Res(r)]
            /\ log' = [log EXCEPT ![i] = r.log]
            /\ world' = IF src = "world"
                         THEN [world EXCEPT !.ibm = hbedfSync_ibm(x.h, x.ibm, x.secret, x.opts)]
                         ELSE world
    /\ UNCHANGED <<loc, hist>>

\* hbedf(h, ibm, secret, opts): runs to its first await, or rejects
CallAsync(i) ==
    /\ MayStart(i)
    /\ \E src \in {"world", "other"} : \E x \in {ArgsOf(src, world)} : \E r \in {CallOf(x)} :
            /\ pc' = [pc EXCEPT ![i] = r.pc]
            /\ mode' = [mode EXCEPT ![i] = "async"]
            /\ args' = [args EXCEPT ![i] = x]
            /\ loc' = [loc EXCEPT ![i] = [r.loc EXCEPT !.ibmObj = src]]
            /\ out' = [out EXCEPT ![i] = IF r.r.ok THEN NoOut ELSE Res(r.r)]
            /\ log' = [log EXCEPT ![i] = r.r.log]
            /\ world' = IF src = "world" THEN [world EXCEPT !.ibm = hbedf_call_ibm(x.ibm, r)]
                         ELSE world
    /\ UNCHANGED hist

\* scryptAsync settles and fyAsync runs its loop to its return
ScryptSettles(i, at, next) ==
    /\ pc[i] = at
    /\ \E l \in {loc[i]} :
       \E shared \in {l.arrayObj = "ibm" /\ l.ibmObj = "world"} :
       \E array \in {IF shared THEN world.ibm ELSE l.array} :
       \E r \in {fyAsync_post(args[i].h, l.isArray, array, l.fyKey, l.salt, l.N)} :
          IF r.ok
          THEN /\ pc' = [pc EXCEPT ![i] = next]
               /\ loc' = [loc EXCEPT ![i] =
                            IF at = "scrypt1" THEN [l EXCEPT !.array = r.array, !.s = r.out]
                            ELSE [l EXCEPT !.array = r.array, !.pbm = r.out]]
               /\ log' = [log EXCEPT ![i] = @ \o r.log]
               /\ out' = out
               /\ world' = IF shared THEN [world EXCEPT !.ibm = r.array] ELSE world
          ELSE /\ pc' = [pc EXCEPT ![i] = "rejected"]
               /\ out' = [out EXCEPT ![i] = [ok |-> FALSE, err |-> r.err, val |-> <<>>]]
               /\ UNCHANGED <<loc, log, world>>
    /\ UNCHANGED <<mode, args, hist>>

Scrypt1Settles(i) == ScryptSettles(i, "scrypt1", "fy1")

\* shuffleAsync resumes after the first pass and starts the second
Fy1Resolves(i) ==
    /\ pc[i] = "fy1"
    /\ \E r \in {shuffleAsync_mid(args[i].h, loc[i])} :
          /\ loc' = [loc EXCEPT ![i] = r.loc]
          /\ log' = [log EXCEPT ![i] = @ \o r.log]
    /\ pc' = [pc EXCEPT ![i] = "scrypt2"]
    /\ UNCHANGED <<mode, args, out, world, hist>>

Scrypt2Settles(i) == ScryptSettles(i, "scrypt2", "fy2")

\* shuffleAsync resumes after the second pass and returns pbm
Fy2Resolves(i) ==
    /\ pc[i] = "fy2"
    /\ pc' = [pc EXCEPT ![i] = "shuffle"]
    /\ UNCHANGED <<mode, args, loc, out, log, world, hist>>

\* hbedf resumes after shuffleAsync, expands and settles its promise
ShuffleResolves(i) ==
    /\ pc[i] = "shuffle"
    /\ \E r \in {hbedf_finish(args[i].h, args[i].opts, loc[i])} :
          /\ pc' = [pc EXCEPT ![i] = IF r.ok THEN "resolved" ELSE "rejected"]
          /\ out' = [out EXCEPT ![i] = Res(r)]
          /\ log' = [log EXCEPT ![i] = @ \o r.log]
    /\ UNCHANGED <<mode, args, loc, world, hist>>

Next ==
    \E i \in Calls :
        \/ CallSync(i)
        \/ CallAsync(i)
        \/ Scrypt1Settles(i)
        \/ Fy1Resolves(i)
        \/ Scrypt2Settles(i)
        \/ Fy2Resolves(i)
        \/ ShuffleResolves(i)

Spec == Init /\ [][Next]_vars

Done(i) == pc[i] \in {"returned", "thrown", "resolved", "rejected"}

----------------------------------------------------------------------------
(* Direct calls of the exported phase functions extract, expand and calcN. *)
(* hist holds one record per call: the function, its arguments, and what   *)
(* it returned or threw.                                                   *)

\* an HD key to call the phases with
UnitKey == key(HashA, <<49, 50>>, defaultSchema, Path4).val

\* requested lengths around the ceilings 255 * 4 and 255 * 5
LengthValues == { 0, 1, 4, 5, 33, MaxBlocks * 4 - 1, MaxBlocks * 4, MaxBlocks * 4 + 1,
                  MaxBlocks * 5, MaxBlocks * 5 + 1, MaxBlocks * 5 + 25 }

\* budgets calcN is called with: the numbers of MemValues, and 2, 2^22 - 1, 2^23 + 1
BudgetValues == { m \in MemValues : m.t = "number" /\ m.k # "nan" }
                \cup { Num(2, 0), Num(4194303, 0), Num(8388609, 0) }

\* how many calls of calcN one behaviour makes
MaxCalcNCalls == 2

Call(fn, h, c, mem, length, ret) ==
    [fn |-> fn, h |-> h, c |-> c, mem |-> mem, length |-> length, ret |-> ret]

InitUnit ==
    /\ pc = [i \in Calls |-> "idle"]
    /\ mode = [i \in Calls |-> "none"]
    /\ args = [i \in Calls |-> NoArgs]
    /\ loc = [i \in Calls |-> NoLoc]
    /\ out = [i \in Calls |-> NoOut]
    /\ log = [i \in Calls |-> <<>>]
    /\ world = Base
    /\ hist = <<>>

\* extract(h, ibm, hdKey, c, mem)
UnitExtract ==
    /\ hist = <<>>
    /\ \E c \in CValues : \E mem \in MemValues :
         hist' = <<Call("extract", HashA, c, mem, 0, extract(HashA, <<ElA>>, UnitKey, c, mem))>>
    /\ UNCHANGED <<pc, mode, args, loc, out, log, world>>

\* expand(h, pbm, hdKey, length)
UnitExpand ==
    /\ hist = <<>>
    /\ \E h \in {HashA, HashB} : \E length \in LengthValues :
         hist' = <<Call("expand", h, Undefined, Undefined, length,
                        expand(h, <<7, 8, 9>>, UnitKey, length))>>
    /\ UNCHANGED <<pc, mode, args, loc, out, log, world>>

\* calcN(mem)
UnitCalcN ==
    /\ Len(hist) < MaxCalcNCalls
    /\ \A k \in 1..Len(hist) : hist[k].fn = "calcN"
    /\ \E mem \in BudgetValues :
         hist' = Append(hist, Call("calcN", HashA, Undefined, mem, 0, Ok(calcN(mem), <<>>)))
    /\ UNCHANGED <<pc, mode, args, loc, out, log, world>>

\* the arrays strengthen is called with: reorderings, removals and repetitions of elements
IbmValues == { <<>>, <<ElA>>, <<ElB>>, <<ElA, ElB>>, <<ElB, ElA>>, <<ElA, ElA>>,
               <<ElC, ElA>>, <<ElA, ElB, ElC>> }

\* the iteration counts strengthen is called with: 100 and 2^32
StrengthenCValues == { Num(100, 0), Num(1, 32) }

\* how many calls of strengthen one behaviour makes
MaxStrengthenCalls == 2

\* strengthen(h, arrays, key, c)
UnitStrengthen ==
    /\ Len(hist) < MaxStrengthenCalls
    /\ \A k \in 1..Len(hist) : hist[k].fn = "strengthen"
    /\ \E arrays \in IbmValues : \E c \in StrengthenCValues :
       \E st \in {strengthen(HashA, arrays, UnitKey, c)} :
         hist' = Append(hist, [fn |-> "strengthen", h |-> HashA, c |-> c, mem |-> Undefined,
                               length |-> 0, ret |-> Ok(st.out, st.log), arrays |-> arrays])
    /\ UNCHANGED <<pc, mode, args, loc, out, log, world>>

NextUnit == UnitExtract \/ UnitExpand \/ UnitCalcN \/ UnitStrengthen

SpecUnit == InitUnit /\ [][NextUnit]_vars

----------------------------------------------------------------------------
(* src/utils: hex.ts, checksum.ts, hmacRng.ts.  A string is the sequence of *)
(* its character codes; an integer parsed from hex is the sequence of its  *)
(* base-16 digits, most significant first.                                 *)

\* the character of a hex digit value, as Number.prototype.toString(16) writes it
HexChar(v) == IF v < 10 THEN 48 + v ELSE 87 + v

\* the value of a hex digit character, -1 for any other character
HexVal(ch) ==
    IF ch >= 48 /\ ch <= 57 THEN ch - 48
    ELSE IF ch >= 97 /\ ch <= 102 THEN ch - 87
    ELSE IF ch >= 65 /\ ch <= 70 THEN ch - 55
    ELSE -1

\* str.padStart(n, ch)
PadStart(str, n, ch) ==
    IF Len(str) >= n THEN str ELSE Array([k \in 1..(n - Len(str)) |-> ch]) \o str

\* b.toString(16)
ToString16(b) == IF b < 16 THEN <<HexChar(b)>> ELSE <<HexChar(b \div 16), HexChar(b % 16)>>

\* one byte of toHex, without its padStart(2, '0')
HexByte_unpadded(b) == ToString16(b)

\* b => b.toString(16).padStart(2, '0')
HexByte(b) == PadStart(ToString16(b), 2, 48)

\* Array.from(bytes).map(...).join('')
toHex(bytes) ==
    LET RECURSIVE J(_)
        J(k) == IF k > Len(bytes) THEN <<>> ELSE HexByte(bytes[k]) \o J(k + 1)
    IN J(1)

\* the byte stored by bytes[i / 2] = parseInt(two, 16) for a two-character
\* slice: the longest prefix of hex digits after an optional sign or space;
\* NaN is stored as 0 and a negative value modulo 256
ParseByte(two) ==
    LET v1 == HexVal(two[1])
        v2 == HexVal(two[2])
    IN IF v1 >= 0 THEN (IF v2 >= 0 THEN 16 * v1 + v2 ELSE v1)
       ELSE IF two[1] \in {32, 43} /\ v2 >= 0 THEN v2
       ELSE IF two[1] = 45 /\ v2 >= 0 THEN (256 - v2) % 256
       ELSE 0

toBytes(hex) ==
    IF Len(hex) % 2 # 0 THEN Fail("Error: Invalid hex string", <<>>)
    ELSE Ok(Array([k \in 1..(Len(hex) \div 2) |-> ParseByte(SubSeq(hex, 2 * k - 1, 2 * k))]), <<>>)

\* parseInt(str, 16) of a string of hex digits: its base-16 digits
ParseInt16(str) == Array([k \in 1..Len(str) |-> HexVal(str[k])])

\* quotient and remainder of a base-16 number by ten
DivTen(d) ==
    LET RECURSIVE D(_, _, _)
        D(k, r, q) == IF k > Len(d) THEN [q |-> q, r |-> r]
                      ELSE D(k + 1, (16 * r + d[k]) % 10, Append(q, (16 * r + d[k]) \div 10))
    IN D(1, 0, <<>>)

IsZero(d) == \A k \in 1..Len(d) : d[k] = 0

\* n.toString() of a non-negative integer: its decimal digits
ToStringDecimal(d) ==
    LET RECURSIVE R(_, _)
        R(n, acc) == IF IsZero(n) THEN acc
                     ELSE Let(DivTen(n), LAMBDA x : R(x.q, <<48 + x.r>> \o acc))
    IN IF IsZero(d) THEN <<48>> ELSE R(d, <<>>)

\* stand-ins for sha256 and for blake2s with dkLen 16
Sha256 == [name |-> "sha256", outputLen |-> 8, iv |-> 11]
Blake2s16 == [name |-> "blake2s", outputLen |-> 16, iv |-> 23]

\* calculateChecksum without its padStart(10, '0')
calculateChecksum_unpadded(str) ==
    ToStringDecimal(ParseInt16(SubSeq(toHex(Hash(Sha256, str)), 1, 8)))

\* calculateChecksum(str): ten decimal digits
calculateChecksum(str) ==
    PadStart(ToStringDecimal(ParseInt16(SubSeq(toHex(Hash(Sha256, str)), 1, 8))), 10, 48)

\* str.slice(0, -n) and str.slice(-n)
SliceHead(str, n) == SubSeq(str, 1, IF Len(str) > n THEN Len(str) - n ELSE 0)
SliceTail(str, n) == SubSeq(str, (IF Len(str) > n THEN Len(str) - n ELSE 0) + 1, Len(str))

verifyChecksum(str) == calculateChecksum(SliceHead(str, 10)) = SliceTail(str, 10)

\* checksum(msg): blake2s(msg, { dkLen: 16 })
checksum(msg) == Hash(Blake2s16, msg)

verify(msg) ==
    IF Len(msg) < 16 THEN Fail("Error: Array must be at least 16 bytes in length.", <<>>)
    ELSE Ok(checksum(SliceHead(msg, 16)) = SliceTail(msg, 16), <<>>)

\* hmacRng(key, msg, c) from mac.digest() on: the integer of the
\* first 12 hex characters over 0xffffffffffff, as numerator and denominator
hmacRng(mac) ==
    [num |-> ParseInt16(SubSeq(toHex(mac), 1, 12)),
     den |-> ParseInt16(<<102, 102, 102, 102, 102, 102, 102, 102, 102, 102, 102, 102>>)]

----------------------------------------------------------------------------
(* Direct calls of the utilities; hist holds the one call made.            *)

ByteValues == { 0, 9, 10, 15, 16, 171, 255 }

\* byte arrays of up to two bytes
ByteArrays == { <<>> } \cup { <<a>> : a \in ByteValues } \cup { <<a, b>> : a, b \in ByteValues }

\* strings toBytes is called with: the characters 0 9 a f F g x - and space
HexCharValues == { 48, 57, 97, 102, 70, 103, 120, 45, 32 }
HexStrings == { <<>> } \cup { <<a>> : a \in HexCharValues }
              \cup { <<a, b>> : a, b \in HexCharValues }
              \cup { <<a, 48, 49>> : a \in HexCharValues }

\* strings a checksum is computed for: up to three of the characters 0 9 a,
\* and one of twelve characters
StrCharValues == { 48, 57, 97 }
StrValues == { <<>> } \cup { <<a>> : a \in StrCharValues }
             \cup { <<a, b>> : a, b \in StrCharValues }
             \cup { <<a, b, c>> : a, b, c \in StrCharValues }
             \cup { <<49, 50, 51, 52, 53, 54, 55, 56, 57, 48, 49, 50>> }

\* digests the HMAC of hmacRng may return, by their first six bytes
DigestByteValues == { 0, 1, 254, 255 }
DigestValues == { <<a, a, a, a, b, c, 7, 7>> : a, b, c \in DigestByteValues }

InitUtil == InitUnit

\* toBytes(toHex(bytes))
UtilToHex ==
    /\ hist = <<>>
    /\ \E bytes \in ByteArrays : \E hex \in {toHex(bytes)} :
         hist' = <<[fn |-> "toHex", bytes |-> bytes, hex |-> hex, ret |-> toBytes(hex)]>>
    /\ UNCHANGED <<pc, mode, args, loc, out, log, world>>

\* toBytes(str)
UtilToBytes ==
    /\ hist = <<>>
    /\ \E str \in HexStrings :
         hist' = <<[fn |-> "toBytes", str |-> str, ret |-> toBytes(str)]>>
    /\ UNCHANGED <<pc, mode, args, loc, out, log, world>>

\* verifyChecksum(str + calculateChecksum(str).toString('utf8'))
UtilVerifyChecksum ==
    /\ hist = <<>>
    /\ \E str \in StrValues : \E csum \in {calculateChecksum(str)} :
         hist' = <<[fn |-> "verifyChecksum", str |-> str, csum |-> csum,
                    ret |-> verifyChecksum(str \o csum)]>>
    /\ UNCHANGED <<pc, mode, args, loc, out, log, world>>

\* verify(msg followed by checksum(msg))
UtilVerify ==
    /\ hist = <<>>
    /\ \E msg \in ByteArrays : \E csum \in {checksum(msg)} :
         hist' = <<[fn |-> "verify", msg |-> msg, csum |-> csum, ret |-> verify(msg \o csum)]>>
    /\ UNCHANGED <<pc, mode, args, loc, out, log, world>>

\* hmacRng(key, msg, c), for a key, message and counter whose HMAC digest is mac
UtilHmacRng ==
    /\ hist = <<>>
    /\ \E mac \in DigestValues :
         hist' = <<[fn |-> "hmacRng", digest |-> mac, ret |-> hmacRng(mac)]>>
    /\ UNCHANGED <<pc, mode, args, loc, out, log, world>>

\* src/utils/shuffle.ts: the legacy shuffle(secret, rekeying, input).  An
\* element of the array is a string, or undefined, written <<-1>>.
Undef == <<-1>>

\* input[k] for a 0-based k: undefined beyond the end of the array
At(a, k) == IF k + 1 <= Len(a) THEN a[k + 1] ELSE Undef

\* input[k] = v for a 0-based k <= input.length: assigning at input.length
\* makes the array one longer
SetAt(a, k, v) == IF k + 1 <= Len(a) THEN [a EXCEPT ![k + 1] = v] ELSE Append(a, v)

\* [input[i], input[j]] = [input[j], input[i]]
SwapAt(a, i, j) == SetAt(SetAt(a, i, At(a, j)), j, At(a, i))

\* input.join(''): an undefined element is joined as the empty string
Join(a) ==
    LET RECURSIVE J(_)
        J(k) == IF k > Len(a) THEN <<>>
                ELSE (IF a[k] = Undef THEN <<>> ELSE a[k]) \o J(k + 1)
    IN J(1)

\* str.normalize('NFKD') for strings of ASCII characters and U+00E9, which
\* decomposes into e and U+0301
NFKD(str) ==
    LET RECURSIVE N(_)
        N(k) == IF k > Len(str) THEN <<>>
                ELSE (IF str[k] = 233 THEN <<101, 769>> ELSE <<str[k]>>) \o N(k + 1)
    IN N(1)

\* d * m for a base-16 number d and 1 <= m <= 16: one digit more than d
MulSmall(d, m) ==
    LET RECURSIVE M(_, _, _)
        M(k, carry, acc) ==
            IF k = 0 THEN <<carry>> \o acc
            ELSE M(k - 1, (d[k] * m + carry) \div 16, <<(d[k] * m + carry) % 16>> \o acc)
    IN M(Len(d), 0, <<>>)

\* d + q for a base-16 number d and 0 <= q <= 16: one digit more than d
AddSmall(d, q) ==
    LET RECURSIVE A(_, _, _)
        A(k, carry, acc) ==
            IF k = 0 THEN <<carry>> \o acc
            ELSE A(k - 1, (d[k] + carry) \div 16, <<(d[k] + carry) % 16>> \o acc)
    IN A(Len(d), q, <<>>)

\* Math.floor(rng * m) for rng = x.num / x.den, x.den = 16^12 - 1 and m <= 16:
\* with x.num * m = q * 16^12 + r it is q, and one more when q + r >= 16^12 - 1
FloorTimes(x, m) ==
    Let(MulSmall(x.num, m), LAMBDA p :
    Let(AddSmall(Tail(p), p[1]), LAMBDA t :
        IF t[1] >= 1 \/ Tail(t) = x.den THEN p[1] + 1 ELSE p[1]))

\* shuffle(secret, rekeying, input), the HMAC of step i being macs[l - i]:
\* the steps made, the array as the swaps leave it and the string returned
shuffle(input, macs) ==
    LET RECURSIVE L(_, _, _)
        L(i, a, acc) ==
            IF i > 0
            THEN Let(FloorTimes(hmacRng(macs[Len(input) - i]), i + 1), LAMBDA j :
                 Let(SwapAt(a, i, j), LAMBDA b :
                     L(i - 1, b, Append(acc, [i |-> i, j |-> j, array |-> b]))))
            ELSE [steps |-> acc, array |-> a, ret |-> NFKD(Join(a))]
    IN L(Len(input) - 1, input, <<>>)

\* arrays of strings to shuffle: of the letters a b c d, and of U+00E9
LegacyInputs == { <<>>, << <<97>> >>, << <<97>>, <<98>> >>, << <<97>>, <<98, 99>>, <<100>> >>,
                  << <<233>>, <<97>> >> }

\* HMAC digests, by their first six bytes: the integers 0, 2^47 - 1, 2^47,
\* 2^48 - 2 and 2^48 - 1
LegacyMacs == { <<0, 0, 0, 0, 0, 0>>, <<127, 255, 255, 255, 255, 255>>, <<128, 0, 0, 0, 0, 0>>,
                <<255, 255, 255, 255, 255, 254>>, <<255, 255, 255, 255, 255, 255>> }

\* shuffle(secret, rekeying, input), for a secret whose HMACs are macs
UtilShuffle ==
    /\ hist = <<>>
    /\ \E input \in LegacyInputs : \E rekeying \in BOOLEAN :
       \E macs \in [1..(IF Len(input) > 0 THEN Len(input) - 1 ELSE 0) -> LegacyMacs] :
       \E r \in {shuffle(input, Array(macs))} :
         hist' = <<[fn |-> "shuffle", rekeying |-> rekeying, input |-> input,
                    macs |-> Array(macs), steps |-> r.steps, array |-> r.array,
                    ret |-> r.ret]>>
    /\ UNCHANGED <<pc, mode, args, loc, out, log, world>>

NextUtil ==
    UtilToHex \/ UtilToBytes \/ UtilVerifyChecksum \/ UtilVerify \/ UtilHmacRng \/ UtilShuffle

SpecUtil == InitUtil /\ [][NextUtil]_vars

----------------------------------------------------------------------------
(* Direct calls of the shuffle engine: fySync, fyAsync, shuffleSync and    *)
(* shuffleAsync.  hist holds the one call made.                            *)

\* the loop of fySync / fyAsync step by step: at each i the message rem, the
\* number num, the index j and the sequence as the swap leaves it
fy_steps(h, isArray, units, dk, l) ==
    LET RECURSIVE L(_, _, _)
        L(i, a, acc) ==
            IF i > 0
            THEN Let(Flat(isArray, SubSeq(a, 1, i + 1)), LAMBDA rem :
                 Let(rng(h, rem, dk, i), LAMBDA num :
                 Let(U32Mod(num, i + 1), LAMBDA j :
                 Let(Swap(a, i, j), LAMBDA b :
                     L(i - 1, b, Append(acc, [i |-> i, rem |-> rem, num |-> num, j |-> j,
                                              array |-> b]))))))
            ELSE acc
    IN L(l - 1, units, <<>>)

\* fyAsync(h, array, key, N) from its call to the settling of its promise
fyAsync(h, isArray, array, hdKey, N) ==
    Let(fyAsync_pre(h, isArray, array, hdKey, N), LAMBDA f :
    Let(fyAsync_post(h, isArray, array, hdKey, f.salt, N), LAMBDA p :
        [p EXCEPT !.log = f.log \o p.log]))

\* sequences of elements (Uint8Array[]) and of bytes (Uint8Array) to shuffle
FyArrays == { <<>>, <<ElA>>, <<ElA, ElB>>, <<ElA, ElA>>, <<ElA, ElB, ElC>>, <<ElC, ElB, ElA>>,
              <<ElA, <<>>, ElB, ElC>> }
FyBytes == { <<>>, <<7>>, <<1, 2>>, <<1, 2, 3>>, <<5, 5, 9>>, <<1, 2, 3, 4, 5>> }

\* work factors: two that scrypt accepts and one that it rejects
FyNValues == { 512, 1024, 3 }

\* fySync(h, array, key, N) or fyAsync(h, array, key, N)
UnitFy ==
    /\ hist = <<>>
    /\ \E h \in {HashA, HashB} : \E isArray \in BOOLEAN : \E N \in FyNValues :
       \E m \in {"sync", "async"} :
       \E array \in (IF isArray THEN FyArrays ELSE FyBytes) :
       \E salt \in {calc_salt(h, UnitKey.key, Flat(isArray, array))} :
       \E dk \in {scrypt(UnitKey.code, salt, N, 8, 1)} :
       \E r \in {IF m = "sync" THEN fySync(h, isArray, array, UnitKey, N)
                 ELSE fyAsync(h, isArray, array, UnitKey, N)} :
         hist' = <<[fn |-> "fy", mode |-> m, h |-> h, isArray |-> isArray, array |-> array,
                    key |-> UnitKey, N |-> N, salt |-> salt, dk |-> dk, ret |-> r,
                    steps |-> IF r.ok THEN fy_steps(h, isArray, array, dk, Len(array))
                              ELSE <<>>]>>
    /\ UNCHANGED <<pc, mode, args, loc, out, log, world>>

\* shuffleAsync(h, sbm, key, N) from its call to the settling of its promise
shuffleAsync(h, sbm, hdKey, N) ==
    Let(deriveChild(h, hdKey, U32BE(SHUFFLE)), LAMBDA c1 :
    Let(fyAsync(h, TRUE, sbm, c1, N), LAMBDA p1 :
        IF ~p1.ok THEN Fail(p1.err, <<Ev("deriveChild", U32BE(SHUFFLE))>> \o p1.log)
        ELSE
    Let(shuffleAsync_mid(h, [NoLoc EXCEPT !.N = N, !.fyKey = c1, !.s = p1.out]), LAMBDA m :
    Let(fyAsync_post(h, m.loc.isArray, m.loc.array, m.loc.fyKey, m.loc.salt, m.loc.N), LAMBDA p2 :
    Let(<<Ev("deriveChild", U32BE(SHUFFLE))>> \o p1.log \o m.log \o p2.log, LAMBDA lg :
        IF ~p2.ok THEN Fail(p2.err, lg) ELSE Ok(p2.out, lg))))))

\* shuffleSync(h, sbm, key, N) or shuffleAsync(h, sbm, key, N); sbmAfter is
\* the caller's sbm array as the first pass leaves it
UnitShuffle ==
    /\ hist = <<>>
    /\ \E h \in {HashA, HashB} : \E N \in FyNValues : \E m \in {"sync", "async"} :
       \E sbm \in FyArrays :
       \E r \in {IF m = "sync" THEN shuffleSync(h, sbm, UnitKey, N)
                 ELSE shuffleAsync(h, sbm, UnitKey, N)} :
       \E p1 \in {fySync(h, TRUE, sbm, deriveChild(h, UnitKey, U32BE(SHUFFLE)), N)} :
         hist' = <<[fn |-> "shuffle", mode |-> m, h |-> h, sbm |-> sbm, key |-> UnitKey,
                    N |-> N, ret |-> r, sbmAfter |-> p1.array]>>
    /\ UNCHANGED <<pc, mode, args, loc, out, log, world>>

NextShuffle == UnitFy \/ UnitShuffle

SpecShuffle == InitUnit /\ [][NextShuffle]_vars

----------------------------------------------------------------------------
(* Properties.  Numbers are compared below by value, from their mantissa   *)
(* and exponent, independently of the 32-bit operations of the code.       *)

\* m1 * 2^s <= m2, and m1 <= m2 * 2^s, for naturals m1, m2 < 2^31 and s >= 0
ScaledLeqLeft(m1, s, m2)  == IF s > 30 THEN m1 = 0 ELSE m1 <= m2 \div Pow2(s)
ScaledLeqRight(m1, m2, s) ==
    IF s > 30 THEN m1 = 0 \/ m2 > 0
    ELSE \/ m1 \div Pow2(s) < m2
         \/ m1 \div Pow2(s) = m2 /\ m1 % Pow2(s) = 0

\* x <= y for numbers x, y >= 0 that are not NaN
NumLeq(x, y) ==
    IF y.k = "inf" THEN TRUE
    ELSE IF x.k = "inf" THEN FALSE
    ELSE IF x.e >= y.e THEN ScaledLeqLeft(x.m, x.e - y.e, y.m)
    ELSE ScaledLeqRight(x.m, y.m, y.e - x.e)

\* x is a number, not NaN, and x >= n
NumericAtLeast(x, n) == x.t = "number" /\ x.k # "nan" /\ ~x.neg /\ NumLeq(Num(n, 0), x)

IsPowerOfTwo(n) == \E k \in 0..30 : n = Pow2(k)

CMemErrors == { "TypeError: c", "RangeError: c", "TypeError: mem", "RangeError: mem" }

\* C1: hbedf and hbedfSync have the same outcome on the same arguments: the
\* promise of hbedf settles with the error hbedfSync throws or with the seed
\* it returns; and each pass of fyAsync returns the buffer, and leaves the
\* array, that fySync returns and leaves on the same (array, key, N), or
\* fails as it does.
C1_SyncAsyncSameOutcome ==
    \A i \in Calls : mode[i] = "async" =>
        /\ Done(i) => out[i] = Res(SyncTable[args[i]])
        /\ pc[i] = "fy1" =>
             \E r \in {fySync(args[i].h, TRUE, CallTable[args[i]].loc.array, loc[i].fyKey, loc[i].N)} :
                r.ok /\ r.out = loc[i].s /\ r.array = loc[i].array
        /\ pc[i] = "fy2" =>
             \E r \in {fySync(args[i].h, FALSE, loc[i].s, loc[i].fyKey, loc[i].N)} :
                r.ok /\ r.out = loc[i].pbm /\ r.array = loc[i].array
        /\ (pc[i] = "rejected" /\ out[i].err = "Error: scrypt N") =>
             \E r \in {fySync(args[i].h, loc[i].isArray, loc[i].array, loc[i].fyKey, loc[i].N)} :
                ~r.ok /\ r.err = out[i].err

\* an asynchronous and a synchronous invocation on the same arguments have
\* both delivered the same non-empty seed
C1_Witness ==
    \E i, j \in Calls :
        /\ mode[i] = "async" /\ pc[i] = "resolved"
        /\ mode[j] = "sync" /\ pc[j] = "returned"
        /\ args[i] = args[j]
        /\ out[i].ok /\ out[i] = out[j] /\ Len(out[i].val) > 0

\* C2: any two finished invocations of hbedf or hbedfSync with the same
\* (h, IBM, secret, opts) delivered the same outcome, whichever invocations
\* were made before or ran interleaved with them.
C2_Deterministic ==
    \A i, j \in Calls :
        (Done(i) /\ Done(j) /\ args[i] = args[j]) => out[i] = out[j]

\* two asynchronous invocations on the same arguments have both resolved
C2_Witness ==
    \E i, j \in Calls :
        /\ i # j
        /\ mode[i] = "async" /\ mode[j] = "async"
        /\ pc[i] = "resolved" /\ pc[j] = "resolved"
        /\ args[i] = args[j]
        /\ out[i].ok /\ Len(out[i].val) > 0

\* C3: a successful invocation returns a seed of exactly opts.dsLen bytes when
\* opts.dsLen is provided (0 <= dsLen <= 255 * hash output length), and of 32
\* bytes when it is absent.
C3_SeedLength ==
    \A i \in Calls :
        (Done(i) /\ out[i].ok) =>
            Len(out[i].val) = (IF args[i].opts.dsLen.def THEN args[i].opts.dsLen.n ELSE 32)

\* C4: extract throws whenever c is not a number, is NaN or is below 100, and
\* whenever mem is not a number, is NaN or is below 1; it returns {sbm, N}
\* only when c >= 100 and mem >= 1.
C4_ExtractValidates ==
    \A k \in 1..Len(hist) :
        hist[k].fn = "extract" =>
            /\ (~NumericAtLeast(hist[k].c, 100) \/ ~NumericAtLeast(hist[k].mem, 1)) =>
                  (~hist[k].ret.ok /\ hist[k].ret.err \in CMemErrors)
            /\ hist[k].ret.ok =>
                  /\ NumericAtLeast(hist[k].c, 100) /\ NumericAtLeast(hist[k].mem, 1)
                  /\ DOMAIN hist[k].ret.val = {"sbm", "N"}

\* extract was called with a valid c and a NaN mem, and threw
C4_Witness ==
    \E k \in 1..Len(hist) :
        /\ hist[k].fn = "extract"
        /\ NumericAtLeast(hist[k].c, 100) /\ hist[k].mem = NaN
        /\ ~hist[k].ret.ok

\* C5: whenever c or mem is invalid, hbedf / hbedfSync fail before any keyed
\* computation (key derivation, child-key derivation, strengthening, salt,
\* scrypt) has been performed.
C5_ValidatedBeforeKeyedWork ==
    \A i \in Calls :
        (Done(i) /\ ~out[i].ok /\ out[i].err \in CMemErrors) => log[i] = <<>>

\* C6: expand throws, and returns no seed, whenever the requested length
\* exceeds 255 * the output length of h; every length from 0 to 255 * the
\* output length is accepted.
C6_ExpandCeiling ==
    \A k \in 1..Len(hist) :
        hist[k].fn = "expand" =>
            IF hist[k].length > 255 * hist[k].h.outputLen
            THEN ~hist[k].ret.ok /\ hist[k].ret.val = <<>>
            ELSE hist[k].ret.ok

\* expand was called with exactly 255 * the output length and returned that many bytes
C6_Witness ==
    \E k \in 1..Len(hist) :
        /\ hist[k].fn = "expand"
        /\ hist[k].length = 255 * hist[k].h.outputLen
        /\ hist[k].ret.ok /\ Len(hist[k].ret.val) = hist[k].length

\* C7: when opts.dsLen exceeds 255 * hash output length, hbedf / hbedfSync
\* raise the output-length error before any keyed work has run.
C7_LengthCheckedBeforeKeyedWork ==
    \A i \in Calls :
        (Done(i) /\ ~out[i].ok /\ out[i].err = "RangeError: length") => log[i] = <<>>

\* C8: for every budget mem >= 1, calcN(mem) is a positive power of two, the
\* largest one not exceeding rawN = mem * 1048576 / 2048.
C8_CalcNPowerOfTwo ==
    \A k \in 1..Len(hist) :
        (hist[k].fn = "calcN" /\ NumericAtLeast(hist[k].mem, 1)) =>
            /\ hist[k].ret.val > 0
            /\ IsPowerOfTwo(hist[k].ret.val)
            /\ NumLeq(Num(hist[k].ret.val, 0), rawNOf(hist[k].mem))
            /\ ~NumLeq(Num(hist[k].ret.val, 1), rawNOf(hist[k].mem))

\* C9: calcN is non-decreasing: for accepted budgets mem1 <= mem2,
\* calcN(mem1) <= calcN(mem2).
C9_CalcNMonotone ==
    \A k1, k2 \in 1..Len(hist) :
        ( /\ hist[k1].fn = "calcN" /\ hist[k2].fn = "calcN"
          /\ NumericAtLeast(hist[k1].mem, 1) /\ NumericAtLeast(hist[k2].mem, 1)
          /\ NumLeq(hist[k1].mem, hist[k2].mem) )
        => hist[k1].ret.val <= hist[k2].ret.val

\* C10: for every c that passes extract's validation, strengthen runs exactly
\* c HMAC iterations on each element, and never fewer than 100.
C10_IterationCount ==
    \A k \in 1..Len(hist) :
        (hist[k].fn = "extract" /\ NumericAtLeast(hist[k].c, 100)) =>
            \A e \in 1..Len(hist[k].ret.log) :
                hist[k].ret.log[e].op = "strengthen_element" =>
                    /\ hist[k].ret.log[e].info[2] >= 100
                    /\ (hist[k].c.k = "finite" /\ hist[k].c.e >= 0) =>
                          /\ NumLeq(hist[k].c, Num(hist[k].ret.log[e].info[2], 0))
                          /\ NumLeq(Num(hist[k].ret.log[e].info[2], 0), hist[k].c)

\* C11: strengthen returns as many elements as it was given, in their order,
\* and the value at a position depends only on (h, child key, c) and the
\* element there: in any two calls with the same h, key and c, equal elements
\* have equal strengthened values, wherever they stand and whatever the other
\* elements are.
C11_ElementsIndependent ==
    \A k1, k2 \in 1..Len(hist) :
        (hist[k1].fn = "strengthen" /\ hist[k2].fn = "strengthen") =>
            /\ Len(hist[k1].ret.val) = Len(hist[k1].arrays)
            /\ (hist[k1].h = hist[k2].h /\ hist[k1].c = hist[k2].c) =>
                  \A p \in 1..Len(hist[k1].arrays) : \A q \in 1..Len(hist[k2].arrays) :
                      hist[k1].arrays[p] = hist[k2].arrays[q] =>
                          hist[k1].ret.val[p] = hist[k2].ret.val[q]

\* two calls with the same c gave an element standing at different positions
\* of two different arrays the same strengthened value
C11_Witness ==
    \E k1, k2 \in 1..Len(hist) :
        /\ hist[k1].fn = "strengthen" /\ hist[k2].fn = "strengthen"
        /\ hist[k1].c = hist[k2].c /\ hist[k1].c = Num(100, 0)
        /\ Len(hist[k1].arrays) # Len(hist[k2].arrays)
        /\ \E p \in 1..Len(hist[k1].arrays) : \E q \in 1..Len(hist[k2].arrays) :
              /\ p # q
              /\ hist[k1].arrays[p] = hist[k2].arrays[q]
              /\ hist[k1].ret.val[p] = hist[k2].ret.val[q]
              /\ hist[k1].ret.val[p] # hist[k1].arrays[p]

\* the keyed steps of one invocation on n elements, phase by phase:
\* Key, Extract, Shuffle pass 1, Shuffle pass 2, Expand
PhaseSteps(n) ==
    <<"deriveMaster", "deriveNode">>
    \o <<"deriveChild">> \o [k \in 1..n |-> "strengthen_element"] \o <<"calcN">>
    \o <<"deriveChild", "calc_salt", "scrypt", "fy_loop">>
    \o <<"deriveChild", "calc_salt", "scrypt", "fy_loop">>
    \o <<"digest", "expand_blocks">>

IsPrefix(a, b) == Len(a) <= Len(b) /\ SubSeq(b, 1, Len(a)) = a

StepsOf(i) == [k \in 1..Len(log[i]) |-> log[i][k].op]

\* the number of steps an asynchronous invocation on n elements has made when
\* it is suspended at, or has resumed from, each of its awaits
StepsAt(p, n) ==
    CASE p = "scrypt1" -> n + 7
      [] p = "fy1" -> n + 8
      [] p = "scrypt2" -> n + 11
      [] p \in {"fy2", "shuffle"} -> n + 12
      [] p = "resolved" -> n + 14

\* C12: within one invocation the phases run in the order Key, Extract,
\* Shuffle pass 1, Shuffle pass 2, Expand, each after the previous one has
\* completed and on its output: at every moment the steps made are an initial
\* part of that sequence (none twice, none skipped), an asynchronous
\* invocation is exactly as far as its suspension point says, both scrypt
\* calls use the N that Extract computed and the salt just computed, the
\* second pass is keyed by the checksum of the first pass's output, and a
\* successful run has made every step.
C12_PhasesInOrder ==
    \A i \in Calls : mode[i] # "none" =>
        \E n \in {Len(args[i].ibm)} :
            /\ IsPrefix(StepsOf(i), PhaseSteps(n))
            /\ (Done(i) /\ out[i].ok) => StepsOf(i) = PhaseSteps(n)
            /\ (mode[i] = "async" /\ pc[i] \notin {"rejected"}) => Len(log[i]) = StepsAt(pc[i], n)
            /\ \A k \in {n + 7, n + 11} : k <= Len(log[i]) =>
                  /\ log[i][k].info[3] = log[i][n + 4].info
                  /\ log[i][k].info[2] = log[i][k - 1].info
            /\ (mode[i] = "async" /\ n + 9 <= Len(log[i])) =>
                  log[i][n + 9].info = First(Hash(args[i].h, loc[i].s), 4)

\* an asynchronous invocation on three elements has resolved after all its steps
C12_Witness ==
    \E i \in Calls :
        /\ mode[i] = "async" /\ pc[i] = "resolved" /\ out[i].ok
        /\ Len(args[i].ibm) = 3
        /\ Len(log[i]) = 17

\* C13: under every interleaving of asynchronous invocations at their awaits,
\* also of invocations passed the same ibm array object, each invocation has
\* after each await what it has there when run alone on the arguments it was
\* called with: the first pass's result, the second pass's result, and the
\* seed or error its promise settles with.
C13_ConcurrentAsAlone ==
    \A i \in Calls : mode[i] = "async" =>
        \E alone \in {AloneOf(args[i])} :
            /\ pc[i] \in {"fy1", "scrypt2", "fy2", "shuffle", "resolved"} => loc[i].s = alone.s
            /\ pc[i] \in {"fy2", "shuffle", "resolved"} => loc[i].pbm = alone.pbm
            /\ Done(i) => out[i] = alone.r

\* two asynchronous invocations were passed the same ibm array object; the
\* second has resolved while the first is still suspended in a shuffle pass
C13_Witness ==
    \E i, j \in Calls :
        /\ i < j
        /\ mode[i] = "async" /\ mode[j] = "async"
        /\ loc[i].ibmObj = "world" /\ loc[j].ibmObj = "world"
        /\ pc[i] \in {"scrypt1", "scrypt2"}
        /\ pc[j] = "resolved" /\ out[j].ok /\ Len(out[j].val) > 0

\* C16: no step of any invocation of hbedf or hbedfSync, successful or failed,
\* changes the caller's ibm array (its order, its elements' bytes), secret
\* bytes or opts.
C16_ArgumentsUnchanged == [][world' = world]_vars

\* a synchronous and an asynchronous invocation on the caller's objects have
\* finished with a seed, and the objects still hold what was passed
C16_Witness ==
    \E i, j \in Calls :
        /\ mode[i] = "sync" /\ pc[i] = "returned"
        /\ mode[j] = "async" /\ pc[j] = "resolved" /\ loc[j].ibmObj = "world"
        /\ args[i] = world /\ args[j] = world
        /\ Len(world.ibm) > 1

Errors == { "Error: path", "TypeError: c", "RangeError: c", "TypeError: mem", "RangeError: mem",
            "Error: scrypt N", "RangeError: length" }

SettledAsItShould ==
    \A i \in Calls :
        /\ mode[i] = "async" => pc[i] \notin {"thrown", "returned"}
        /\ mode[i] = "sync" => pc[i] \in {"thrown", "returned"}
        /\ pc[i] \in {"rejected", "thrown"} =>
              (~out[i].ok /\ out[i].val = <<>> /\ out[i].err \in Errors)
        /\ pc[i] \in {"resolved", "returned"} => out[i].ok
        /\ ~Done(i) => out[i] = NoOut

SettledOnce ==
    \A i \in Calls :
        Done(i) => (pc'[i] = pc[i] /\ out'[i] = out[i] /\ log'[i] = log[i])

\* C14: every failure of hbedf, also one that occurs before its first await,
\* rejects the promise and is never thrown at the call; hbedfSync throws in
\* the call itself; a failed invocation delivers no seed, nothing is delivered
\* before the invocation settles, and a settled invocation runs no further
\* step (nothing is retried).
C14_FailureChannel == []SettledAsItShould /\ [][SettledOnce]_vars

\* hbedf called with an invalid c has rejected its promise at the call, and
\* hbedfSync has thrown on the same arguments
C14_Witness ==
    \E i, j \in Calls :
        /\ mode[i] = "async" /\ pc[i] = "rejected" /\ out[i].err = "RangeError: c"
        /\ loc[i] = [NoLoc EXCEPT !.ibmObj = "world"]
        /\ mode[j] = "sync" /\ pc[j] = "thrown" /\ out[j] = out[i]

\* C15: in every invocation the indexes of the child keys the phases derive
\* from the Node Key are pairwise distinct: Strengthen derives 1398035013,
\* Shuffle derives 1397249350, and Expand derives the counters 1..blocks with
\* blocks = ceil(dsLen / hash length) <= 255 for the dsLen it is called with.
C15_PhaseIndexesDistinct ==
    \A i \in Calls : mode[i] # "none" =>
        \E n \in {Len(args[i].ibm)} :
            /\ Len(log[i]) >= 3 => log[i][3].info = U32BE(1398035013)
            /\ Len(log[i]) >= n + 5 =>
                  /\ log[i][n + 5].info = U32BE(1397249350)
                  /\ log[i][n + 5].info # log[i][3].info
            /\ Len(log[i]) >= n + 14 =>
                  \E blocks \in {log[i][n + 14].info} :
                      /\ blocks <= 255
                      /\ blocks = (DsLenOf(args[i].opts) + args[i].h.outputLen - 1)
                                      \div args[i].h.outputLen
                      /\ \A k \in 1..blocks :
                            U32BE(k) \notin {log[i][3].info, log[i][n + 5].info}

\* an invocation has finished after Expand derived all 255 counters
C15_Witness ==
    \E i \in Calls :
        /\ Done(i) /\ out[i].ok
        /\ Len(log[i]) = Len(args[i].ibm) + 14
        /\ log[i][Len(log[i])].info = 255
        /\ Len(out[i].val) = 255 * args[i].h.outputLen

\* a < b for two base-16 numbers of the same number of digits
Less16(a, b) ==
    \E k \in 1..Len(a) : a[k] < b[k] /\ \A j \in 1..(k - 1) : a[j] = b[j]

\* C17: for every key, message and counter, hmacRng returns a number x with
\* 0 <= x < 1, the integer of the first 12 hex characters of the digest
\* divided by 0xffffffffffff; 1 is returned for no 48-bit digest prefix.
C17_HmacRngBelowOne ==
    \A k \in 1..Len(hist) :
        hist[k].fn = "hmacRng" =>
            /\ Len(hist[k].ret.num) = 12 /\ Len(hist[k].ret.den) = 12
            /\ \A j \in 1..12 : hist[k].ret.num[j] \in 0..15 /\ hist[k].ret.den[j] = 15
            /\ Less16(hist[k].ret.num, hist[k].ret.den)

LowerHexChars == { 48, 49, 50, 51, 52, 53, 54, 55, 56, 57, 97, 98, 99, 100, 101, 102 }

\* C18: for every message, verification of the message followed by its
\* checksum succeeds, for the ten-digit decimal checksum on strings
\* (calculateChecksum / verifyChecksum) and for the 16-byte checksum on byte
\* arrays (checksum / verify), the empty message included.
C18_ChecksumRoundTrip ==
    \A k \in 1..Len(hist) :
        /\ hist[k].fn = "verifyChecksum" => (hist[k].ret = TRUE /\ Len(hist[k].csum) = 10)
        /\ hist[k].fn = "verify" =>
              (hist[k].ret.ok /\ hist[k].ret.val = TRUE /\ Len(hist[k].csum) = 16)

\* a string whose checksum value has fewer than ten digits was verified with
\* its zero-padded checksum
C18_Witness ==
    \E k \in 1..Len(hist) :
        /\ hist[k].fn = "verifyChecksum"
        /\ hist[k].csum[1] = 48
        /\ hist[k].ret = TRUE

\* C20: toBytes(toHex(b)) = b for every byte array b, toHex(b) has 2 * length(b)
\* lowercase hex characters, and toBytes throws for every string of odd length.
C20_HexRoundTrip ==
    \A k \in 1..Len(hist) :
        /\ hist[k].fn = "toHex" =>
              /\ hist[k].ret.ok /\ hist[k].ret.val = hist[k].bytes
              /\ Len(hist[k].hex) = 2 * Len(hist[k].bytes)
              /\ \A j \in 1..Len(hist[k].hex) : hist[k].hex[j] \in LowerHexChars
        /\ (hist[k].fn = "toBytes" /\ Len(hist[k].str) % 2 = 1) => ~hist[k].ret.ok

\* two bytes below 16 were converted to four hex characters and back
C20_Witness ==
    \E k \in 1..Len(hist) :
        /\ hist[k].fn = "toHex"
        /\ hist[k].bytes = <<10, 9>>
        /\ hist[k].hex = <<48, 97, 48, 57>>
        /\ hist[k].ret.val = <<10, 9>>

\* the sequence a step of a pass started from: what the step before left, or
\* the sequence the pass was called with
FyBefore(c, k) == IF k = 1 THEN c.array ELSE c.steps[k - 1].array

\* the value of four big-endian bytes modulo m
BytesMod(b, m) ==
    LET RECURSIVE V(_)
        V(k) == IF k = 0 THEN 0 ELSE (V(k - 1) * 256 + b[k]) % m
    IN V(4)

\* C21: a shuffle pass over l units makes exactly the steps i = l-1, ..., 1 in
\* that order; step i computes num = rng(dk, rem, i) for rem the flattened
\* units 0..i of the partly shuffled sequence, sets j = num mod (i + 1) and
\* swaps units i and j; the salt and the key stream dk are those of the
\* unshuffled sequence for the whole pass.
C21_PassSteps ==
    \A k \in 1..Len(hist) :
        (hist[k].fn = "fy" /\ hist[k].ret.ok) =>
            LET c == hist[k]
                l == Len(c.array)
            IN /\ Len(c.steps) = (IF l > 0 THEN l - 1 ELSE 0)
               /\ c.ret.log[1] = Ev("calc_salt", First(hmac(c.h, c.key.key,
                                                            Flat(c.isArray, c.array) \o SALT), 16))
               /\ c.ret.log[2] = Ev("scrypt", <<c.key.code, c.ret.log[1].info, c.N, 8, 1>>)
               /\ c.dk = scrypt(c.key.code, c.ret.log[1].info, c.N, 8, 1)
               /\ \A n \in 1..Len(c.steps) :
                     LET st == c.steps[n]
                         b  == FyBefore(c, n)
                     IN /\ st.i = l - n
                        /\ st.rem = Flat(c.isArray, SubSeq(b, 1, st.i + 1))
                        /\ st.num = First(hmac(c.h, c.dk, st.rem \o U32BE(st.i)), 4)
                        /\ st.j = BytesMod(st.num, st.i + 1)
                        /\ st.array[st.i + 1] = b[st.j + 1]
                        /\ st.array[st.j + 1] = b[st.i + 1]
                        /\ Len(st.array) = l
                        /\ \A q \in (1..l) \ {st.i + 1, st.j + 1} : st.array[q] = b[q]
               /\ c.ret.array = (IF c.steps = <<>> THEN c.array ELSE c.steps[Len(c.steps)].array)
               /\ c.ret.out = Flat(c.isArray, c.ret.array)

\* a pass over four elements made three steps, one of which moved an element
C21_Witness ==
    \E k \in 1..Len(hist) :
        /\ hist[k].fn = "fy" /\ hist[k].ret.ok /\ hist[k].isArray
        /\ Len(hist[k].steps) = 3
        /\ \E n \in 1..3 : hist[k].steps[n].j # hist[k].steps[n].i

\* C22: pass 1 shuffles sbm element by element under c1 = child(key,
\* 1397249350) and gives s; the index of the second key is the big-endian
\* uint32 of the first 4 bytes of h(s), with s as pass 1 returned it; pass 2
\* shuffles s byte by byte under c2 = child(c1, index); both passes run scrypt
\* with the same N.
C22_TwoPassRekeying ==
    \A k \in 1..Len(hist) :
        (hist[k].fn = "shuffle" /\ hist[k].ret.ok) =>
            LET c  == hist[k]
                lg == c.ret.log
                c1 == deriveChild(c.h, c.key, U32BE(1397249350))
            IN \E p1 \in {fySync(c.h, TRUE, c.sbm, c1, c.N)} :
               \E index \in {First(Hash(c.h, p1.out), 4)} :
               \E c2 \in {deriveChild(c.h, c1, index)} :
               \E p2 \in {fySync(c.h, FALSE, p1.out, c2, c.N)} :
                  /\ Len(lg) = 8
                  /\ lg[1] = Ev("deriveChild", U32BE(1397249350))
                  /\ lg[3] = Ev("scrypt", <<c1.code, calc_salt(c.h, c1.key, flatten_arrays(c.sbm)),
                                            c.N, 8, 1>>)
                  /\ lg[4] = Ev("fy_loop", Len(c.sbm))
                  /\ lg[5] = Ev("deriveChild", index)
                  /\ lg[7] = Ev("scrypt", <<c2.code, calc_salt(c.h, c2.key, p1.out), c.N, 8, 1>>)
                  /\ lg[8] = Ev("fy_loop", Len(p1.out))
                  /\ c.ret.val = p2.out

\* shuffleAsync ran on three elements; pass 1 moved an element, so h(s) is not
\* the hash of the flattened sbm, and pass 2 moved a byte of s
C22_Witness ==
    \E k \in 1..Len(hist) :
        /\ hist[k].fn = "shuffle" /\ hist[k].mode = "async" /\ hist[k].ret.ok
        /\ Len(hist[k].sbm) = 3
        /\ hist[k].sbmAfter # hist[k].sbm
        /\ Len(hist[k].ret.val) = 5
        /\ hist[k].ret.val # flatten_arrays(hist[k].sbmAfter)

\* the pbm the phase functions are called with
UnitPbm == <<7, 8, 9>>

\* ceil(a / b) for a >= 0 and b > 0
CeilDiv(a, b) == (a + b - 1) \div b

\* T(1) || ... || T(n) with T(0) empty and
\* T(i) = HMAC(HMAC(child(key, i).key, pbm), T(i-1) || pbm || byte(i)):
\* st holds the number of blocks made, the last block and their concatenation
BlocksAfter(h, pbm, hdKey, st, n) ==
    LET Block(b) ==
            Let(hmac(h, hmac(h, deriveChild(h, hdKey, U32BE(b.i + 1)).key, pbm),
                     b.t \o pbm \o <<b.i + 1>>),
                LAMBDA t : [i |-> b.i + 1, t |-> t, all |-> b.all \o t])
        RECURSIVE R(_, _)
        R(b, m) == IF m <= 0 THEN b
                   ELSE IF m = 1 THEN Block(b)
                   ELSE Let(R(b, m \div 2), LAMBDA mid : R(mid, m - (m \div 2)))
    IN R(st, n)

\* C23: expand returns the first `length` bytes of T1 || T2 || ..., where T0
\* is empty and Ti = HMAC(prk_i, T(i-1) || PBM || byte(i)) with prk_i =
\* HMAC(child(NodeKey, i).key, PBM); the blocks are made for i = 1, 2, ... and
\* each block enters the next.
C23_ExpandBlocks ==
    \A k \in 1..Len(hist) :
        (hist[k].fn = "expand" /\ hist[k].ret.ok) =>
            \E n \in {CeilDiv(hist[k].length, hist[k].h.outputLen)} :
            \E b \in {BlocksAfter(hist[k].h, UnitPbm, UnitKey,
                                  [i |-> 0, t |-> <<>>, all |-> <<>>], n)} :
                /\ Len(b.all) >= hist[k].length
                /\ hist[k].ret.val = SubSeq(b.all, 1, hist[k].length)

\* expand returned 33 bytes: eight whole blocks and one byte of the ninth
C23_Witness ==
    \E k \in 1..Len(hist) :
        /\ hist[k].fn = "expand" /\ hist[k].ret.ok
        /\ hist[k].length = 33 /\ hist[k].h.outputLen = 4
        /\ Len(hist[k].ret.val) = 33

\* C28: for every length the ceiling test of expand accepts, the loop ends
\* after exactly ceil(length / hash output length) passes, and the counter i
\* stays within 1..255, so that its one-byte encoding never wraps around.
C28_ExpandTerminates ==
    \A k \in 1..Len(hist) :
        (hist[k].fn = "expand" /\ hist[k].length <= 255 * hist[k].h.outputLen) =>
            /\ hist[k].ret.ok
            /\ hist[k].ret.log[2].op = "expand_blocks"
            /\ hist[k].ret.log[2].info = CeilDiv(hist[k].length, hist[k].h.outputLen)
            /\ hist[k].ret.log[2].info \in 0..255

\* expand was called with a whole number of blocks below the ceiling, and
\* with the ceiling itself, where the counter ends at 255
C28_Witness ==
    \E k \in 1..Len(hist) :
        /\ hist[k].fn = "expand" /\ hist[k].ret.ok
        /\ hist[k].length = 255 * hist[k].h.outputLen
        /\ hist[k].ret.log[2].info = 255

\* the positions of the events of an operation in the log of an invocation
EventsOf(i, op) == { k \in 1..Len(log[i]) : log[i][k].op = op }

\* the key of the shuffle pass whose scrypt call is the event at position k:
\* the child of the Node Key at 1397249350 for the first call, the child of
\* that key at the index derived just before for the second
PassKey(i, k) ==
    Let(deriveChild(args[i].h,
                    key(args[i].h, args[i].secret, SchemaOf(args[i].opts), args[i].opts.path).val,
                    U32BE(1397249350)),
        LAMBDA c1 : IF \E j \in EventsOf(i, "scrypt") : j < k
                    THEN deriveChild(args[i].h, c1, log[i][k - 2].info)
                    ELSE c1)

C25_CallerSequenceUntouched ==
    \A k \in 1..Len(hist) :
        /\ (hist[k].fn = "fy" /\ hist[k].ret.ok) => hist[k].ret.array = hist[k].array
        /\ (hist[k].fn = "shuffle" /\ hist[k].ret.ok) => hist[k].sbmAfter = hist[k].sbm

\* how often u stands in the sequence a
Count(a, u) == Cardinality({ k \in 1..Len(a) : a[k] = u })

\* b holds the units of a, each as often as a does
IsPermutation(a, b) ==
    /\ Len(a) = Len(b)
    /\ \A k \in 1..Len(a) : Count(b, a[k]) = Count(a, a[k])

\* C26: a shuffle pass returns the concatenation of a permutation of its
\* input units: none lost, repeated or altered, and as many bytes as the
\* input has; so PBM is a permutation of the bytes of the concatenated SBM
\* elements, of the same length.
C26_PassPermutes ==
    \A k \in 1..Len(hist) :
        /\ (hist[k].fn = "fy" /\ hist[k].ret.ok) =>
              /\ IsPermutation(hist[k].array, hist[k].ret.array)
              /\ hist[k].ret.out = Flat(hist[k].isArray, hist[k].ret.array)
              /\ Len(hist[k].ret.out) = Len(Flat(hist[k].isArray, hist[k].array))
        /\ (hist[k].fn = "shuffle" /\ hist[k].ret.ok) =>
              IsPermutation(flatten_arrays(hist[k].sbm), hist[k].ret.val)

\* shuffleSync returned the five bytes of three elements in another order
C26_Witness ==
    \E k \in 1..Len(hist) :
        /\ hist[k].fn = "shuffle" /\ hist[k].mode = "sync" /\ hist[k].ret.ok
        /\ hist[k].sbm = <<ElA, ElB, ElC>>
        /\ hist[k].ret.val # flatten_arrays(hist[k].sbm)
        /\ IsPermutation(<<76, 48, 77, 69, 82>>, hist[k].ret.val)

\* C27: at every step of a pass the number rng returns is an integer from 0 to
\* 2^32 - 1 (four bytes) and the index satisfies 0 <= j <= i < l: the swap
\* stays inside the sequence and touches no position above i, so that the
\* positions above i are final once step i has run.
C27_SwapInRange ==
    \A k \in 1..Len(hist) :
        (hist[k].fn = "fy" /\ hist[k].ret.ok) =>
            LET c == hist[k]
                l == Len(c.array)
            IN \A n \in 1..Len(c.steps) :
                  LET st == c.steps[n]
                  IN /\ Len(st.num) = 4 /\ \A q \in 1..4 : st.num[q] \in 0..255
                     /\ 0 <= st.j /\ st.j <= st.i /\ st.i < l
                     /\ DOMAIN st.array = 1..l
                     /\ \A q \in (st.i + 2)..l : st.array[q] = FyBefore(c, n)[q]
                     /\ \A q \in (st.i + 1)..l : c.ret.array[q] = st.array[q]

\* a pass over five bytes: its first step moved a byte to the last position,
\* where it still is after the last step
C27_Witness ==
    \E k \in 1..Len(hist) :
        /\ hist[k].fn = "fy" /\ hist[k].ret.ok /\ ~hist[k].isArray
        /\ Len(hist[k].steps) = 4
        /\ hist[k].steps[1].j < 4
        /\ hist[k].ret.array[5] = hist[k].array[hist[k].steps[1].j + 1]

\* the arguments are those of Base except for ibm and dsLen
BaseButIbmAndLength(x) == [x EXCEPT !.ibm = Base.ibm, !.opts.dsLen = Base.opts.dsLen] = Base

\* the seed length an invocation requests: opts.dsLen, or 32 when it is absent
RequestedLength(x) == IF x.opts.dsLen.def THEN x.opts.dsLen.n ELSE 32

\* the events of an operation in the log of invocation i, in order
InfosOf(i, op) == SelectSeq(log[i], LAMBDA e : e.op = op)

\* C29: for an ibm of zero or one element hbedf / hbedfSync raise no error:
\* pass 1 makes no swap (for an empty ibm pass 2 makes none either and pbm is
\* empty), both scrypt calls are made, and a seed of the requested length is
\* returned.
C29_SmallIbm ==
    \A i \in Calls :
        (Done(i) /\ Len(args[i].ibm) <= 1 /\ BaseButIbmAndLength(args[i])) =>
            /\ out[i].ok
            /\ Len(InfosOf(i, "scrypt")) = 2
            /\ Len(InfosOf(i, "fy_loop")) = 2
            /\ InfosOf(i, "fy_loop")[1].info = Len(args[i].ibm)
            /\ args[i].ibm = <<>> => InfosOf(i, "fy_loop")[2].info = 0
            /\ (args[i].ibm = <<>> /\ mode[i] = "async") => loc[i].pbm = <<>>
            /\ Len(out[i].val) = RequestedLength(args[i])

\* the same with the length hbedf passes to expand in place of the requested one
SmallIbmButLength ==
    \A i \in Calls :
        (Done(i) /\ Len(args[i].ibm) <= 1 /\ BaseButIbmAndLength(args[i])) =>
            /\ out[i].ok
            /\ Len(InfosOf(i, "scrypt")) = 2
            /\ Len(InfosOf(i, "fy_loop")) = 2
            /\ InfosOf(i, "fy_loop")[1].info = Len(args[i].ibm)
            /\ args[i].ibm = <<>> => InfosOf(i, "fy_loop")[2].info = 0
            /\ (args[i].ibm = <<>> /\ mode[i] = "async") => loc[i].pbm = <<>>
            /\ Len(out[i].val) = DsLenOf(args[i].opts)

\* C30: in the legacy shuffle, at every step i from input.length - 1 down to 1
\* the index j = floor(rng * (i + 1)) satisfies 0 <= j <= i for every value
\* createHmacRng can return: every swap stays inside the array, the length of
\* the array never changes, and the string returned is the concatenation of a
\* permutation of the input elements.
C30_LegacySwapInRange ==
    \A k \in 1..Len(hist) :
        (hist[k].fn = "shuffle" /\ "macs" \in DOMAIN hist[k]) =>
            LET c == hist[k]
                l == Len(c.input)
            IN /\ Len(c.steps) = (IF l > 0 THEN l - 1 ELSE 0)
               /\ \A n \in 1..Len(c.steps) :
                     /\ c.steps[n].i = l - n
                     /\ 0 <= c.steps[n].j /\ c.steps[n].j <= c.steps[n].i
                     /\ Len(c.steps[n].array) = l
               /\ Len(c.array) = l
               /\ IsPermutation(c.input, c.array)
               /\ c.ret = flatten_arrays(c.array)
====
